---- MODULE Spec2Model ----
(***************************************************************************)
(* The AI enhancement client of src/services/aiEnhanceService.ts: the      *)
(* singleton AIEnhancementService (connection state, failure counter,      *)
(* offline flag), its enhance() calls (model fallback, retries, backoff,   *)
(* timeout race, cancellation) and the editor's classification of a        *)
(* rejected call (components/PromptEditor.tsx, handleEnhance).             *)
(*                                                                         *)
(* One action is one task of the browser's event loop together with the    *)
(* microtasks it triggers: JavaScript runs each of them to completion, so  *)
(* the code between two awaits is atomic.                                  *)
(***************************************************************************)
EXTENDS Integers, Sequences, FiniteSets, TLC

(***************************************************************************)
(* Bounds of the model.                                                    *)
(***************************************************************************)
\* enhance() calls made overall
MaxCalls == 2
\* length of the texts formatEnhancedContent is tried on, one by one
MaxTextLen == 4
\* applications of formatEnhancedContent to one text
MaxPasses == 2
\* connection probes that may be pending at the same time
MaxProbes == 1
\* times the prompt is built from the same arguments
MaxBuilds == 2
\* calls of refreshConnection() that are followed to their return
MaxRefreshes == 1
\* changes of the content the suggestions hook is rendered with
MaxEdits == 2

\* the enhance calls that run at the same time: one, a call is made when the
\* one before it has settled
Calls == {1}

(***************************************************************************)
(* Program constants.                                                      *)
(***************************************************************************)
\* MISTRAL_MODELS in the order of `models` in enhanceWithRetry
models == <<"primary", "fallback", "fast">>
maxRetries == 4
\* the request timer with twice its delay
timeout_Doubled == 2 * 30000

\* REQUEST_CONFIG.timeout, the delay of the timer of makeAIRequest (ms)
timeout == 30000
\* baseTimeout of makeAIRequestWithTimeout (ms)
baseTimeout == 30000

Min(a, b) == IF a < b THEN a ELSE b

\* adaptiveTimeout without its cap
adaptiveTimeout_Uncapped(failures) == baseTimeout + failures * 5000

\* adaptiveTimeout of makeAIRequestWithTimeout: the delay of the timer of the
\* race, from this.consecutiveFailures
adaptiveTimeout(failures) == Min(baseTimeout + failures * 5000, 60000)

\* the delay doubling with every attempt
backoffDelay_Exponential(attempt) == 1000 * 2 ^ (attempt - 1)

\* delay of the catch block of enhanceWithRetry: Math.min(1000 * attempt, 3000)
backoffDelay(attempt) == Min(1000 * attempt, 3000)

(***************************************************************************)
(* Requests.  Text is a sequence of characters.                            *)
(***************************************************************************)
Whitespace == {" ", "\n", "\t"}

RECURSIVE TrimStart(_)
TrimStart(s) ==
    IF s # <<>> /\ Head(s) \in Whitespace THEN TrimStart(Tail(s)) ELSE s

RECURSIVE TrimEnd(_)
TrimEnd(s) ==
    IF s # <<>> /\ s[Len(s)] \in Whitespace
    THEN TrimEnd(SubSeq(s, 1, Len(s) - 1)) ELSE s

\* String.prototype.trim
Trim(s) == TrimEnd(TrimStart(s))

\* level: 'spark' | 'glow' | 'shine' of AIEnhanceOptions
Levels == {"spark", "glow", "shine"}
\* the keys of contextMap in getEnhancementPrompt
Contexts == {"technical", "creative", "analytical", "business", "general"}

\* the options an enhance call is made with: a valid one, and one invalid
\* in each way (empty content, blank content, unknown level, unknown context)
Requests ==
    { [content |-> <<"h", "i">>, level |-> "glow", context |-> "technical"],
      [content |-> <<>>, level |-> "glow", context |-> "technical"],
      [content |-> <<" ", "\n">>, level |-> "spark", context |-> "general"],
      [content |-> <<"h", "i">>, level |-> "mega", context |-> "general"],
      [content |-> <<"h", "i">>, level |-> "shine", context |-> "legal"] }

ValidRequest(o) ==
    /\ Trim(o.content) # <<>>
    /\ o.level \in Levels
    /\ o.context \in Contexts

ValidRequests == {o \in Requests : ValidRequest(o)}

(***************************************************************************)
(* Errors: a name and a message, the message a sequence of words.          *)
(***************************************************************************)
NoError == [name |-> "none", message |-> <<>>]

\* makeAIRequestWithTimeout: new Error('Enhancement cancelled by user')
CancelledError ==
    [name |-> "Error", message |-> <<"Enhancement", "cancelled", "by", "user">>]
\* makeAIRequestWithTimeout: new Error('Request timeout')
TimeoutError == [name |-> "Error", message |-> <<"Request", "timeout">>]
\* fetch rejects when controller.abort() fires
AbortError == [name |-> "AbortError", message |-> <<"signal", "is", "aborted">>]
\* fetch rejects on a transport failure
NetworkError == [name |-> "TypeError", message |-> <<"Failed", "to", "fetch">>]
\* makeAIRequest: new Error('No response from AI model')
NoResponseError ==
    [name |-> "Error", message |-> <<"No", "response", "from", "AI", "model">>]
\* response.json() rejects: the envelope is not JSON
SyntaxError == [name |-> "SyntaxError", message |-> <<"Unexpected", "token">>]
\* errorData.error?.message || 'Unknown error': the text OpenRouter sends with
\* an error status, or the default
ServerMessages == {<<"Unknown", "error">>, <<"Provider", "returned", "error">>}
\* makeAIRequest: new Error(`API request failed: ${status} ... - ${message}`)
HttpError(status, serverMessage) ==
    [name |-> "Error",
     message |-> <<"API", "request", "failed:", status, "-">> \o serverMessage]
\* formatEnhancedContent of a value that is not a string
ParserError ==
    [name |-> "TypeError",
     message |-> <<"content.replace", "is", "not", "a", "function">>]
\* enhanceWithRetry: the key prompt was dismissed
ApiKeyError ==
    [name |-> "Error", message |-> <<"OpenRouter", "API", "key", "is", "required">>]
\* enhanceWithRetry: this.isOfflineMode
OfflineError == [name |-> "Error", message |-> <<"Device", "is", "offline.">>]
\* ExhaustedError with a fixed message, the cause left out
ExhaustedError_NoCause(lastError) ==
    [name |-> "Error",
     message |-> <<"AI", "enhancement", "failed", "after", "trying", "all", "models.">>]

\* enhanceWithRetry: the error thrown when every model failed
ExhaustedError(lastError) ==
    [name |-> "Error",
     message |-> <<"AI", "enhancement", "failed", "after", "trying", "all", "models.">>
                 \o lastError.message]

\* String.prototype.includes, on words
Includes(message, word) == \E i \in 1..Len(message) : message[i] = word

\* PromptEditor.handleEnhance: the test that takes the cancellation branch
IsCancellation(err) ==
    err.name = "AbortError" \/ Includes(err.message, "cancelled")

(***************************************************************************)
(* Text.  A text is a sequence of atoms.  An atom is one character (a      *)
(* space, a newline, a tab, a backslash, a quote, a letter) or a run of    *)
(* other characters that no operation of the program splits (a word, a     *)
(* key, a number, a fence marker).                                         *)
(***************************************************************************)
\* the three backquotes of a markdown code fence, one atom
Fence == "<fence>"

SetMax(S) == CHOOSE i \in S : \A j \in S : j <= i

RECURSIVE Flatten(_)
\* the texts of a sequence, one after the other
Flatten(texts) ==
    IF texts = <<>> THEN <<>> ELSE Head(texts) \o Flatten(Tail(texts))

RECURSIVE UnescapeNewlines(_)
\* .replace(/\\n/g, '\n'): a backslash followed by the letter n
UnescapeNewlines(s) ==
    IF s = <<>> THEN <<>>
    ELSE IF Len(s) >= 2 /\ s[1] = "\\" /\ s[2] = "n"
    THEN <<"\n">> \o UnescapeNewlines(SubSeq(s, 3, Len(s)))
    ELSE <<Head(s)>> \o UnescapeNewlines(Tail(s))

RECURSIVE CollapseWhitespace(_)
\* .replace(/\s+/g, ' '): \s matches the newline too
CollapseWhitespace(s) ==
    IF s = <<>> THEN <<>>
    ELSE IF Head(s) \in Whitespace
    THEN <<" ">> \o CollapseWhitespace(TrimStart(s))
    ELSE <<Head(s)>> \o CollapseWhitespace(Tail(s))

RECURSIVE StripAfterNewline(_)
\* .replace(/\n\s+/g, '\n')
StripAfterNewline(s) ==
    IF s = <<>> THEN <<>>
    ELSE IF Head(s) = "\n" /\ Len(s) >= 2 /\ s[2] \in Whitespace
    THEN <<"\n">> \o StripAfterNewline(TrimStart(Tail(s)))
    ELSE <<Head(s)>> \o StripAfterNewline(Tail(s))

RECURSIVE StripBeforeNewline(_)
\* .replace(/\s+\n/g, '\n'): in a run of whitespace, what comes before its
\* last newline; the newline needs one whitespace before it
StripBeforeNewline(s) ==
    IF s = <<>> THEN <<>>
    ELSE IF Head(s) \in Whitespace
    THEN LET run == Len(s) - Len(TrimStart(s))
             newlines == {i \in 2..run : s[i] = "\n"}
         IN  IF newlines # {}
             THEN <<"\n">> \o StripBeforeNewline(SubSeq(s, SetMax(newlines) + 1, Len(s)))
             ELSE SubSeq(s, 1, run) \o StripBeforeNewline(SubSeq(s, run + 1, Len(s)))
    ELSE <<Head(s)>> \o StripBeforeNewline(Tail(s))

\* formatEnhancedContent with the escaped newlines replaced last
formatEnhancedContent_UnescapesLast(content) ==
    Trim(UnescapeNewlines(StripBeforeNewline(StripAfterNewline(
        CollapseWhitespace(content)))))

\* formatEnhancedContent, of a string
formatEnhancedContent(content) ==
    Trim(StripBeforeNewline(StripAfterNewline(CollapseWhitespace(
        UnescapeNewlines(content)))))

(***************************************************************************)
(* JSON values: [t |-> type, v |-> value].  A number is counted in tenths  *)
(* (9 is 0.9), a string is a text, an array a sequence of values, an       *)
(* object a sequence of <<key, value>> pairs.                              *)
(***************************************************************************)
JNull == [t |-> "null", v |-> FALSE]
\* a property that is absent
Undefined == [t |-> "undefined", v |-> FALSE]
JBool(b) == [t |-> "boolean", v |-> b]
JNum(n) == [t |-> "number", v |-> n]
JStr(text) == [t |-> "string", v |-> text]
JArr(items) == [t |-> "array", v |-> items]
JObj(pairs) == [t |-> "object", v |-> pairs]

\* the numbers of the model, in tenths, and how they are written
Numbers == {-5, 0, 5, 9, 10, 15, 50}
NumberText ==
    [n \in Numbers |->
        CASE n = -5 -> "-0.5" [] n = 0 -> "0" [] n = 5 -> "0.5" [] n = 9 -> "0.9"
          [] n = 10 -> "1" [] n = 15 -> "1.5" [] n = 50 -> "5"]

\* the characters JSON.stringify escapes in a string
Escape(text) ==
    Flatten([i \in 1..Len(text) |->
        CASE text[i] = "\n" -> <<"\\", "n">>
          [] text[i] = "\t" -> <<"\\", "t">>
          [] text[i] = "\"" -> <<"\\", "\"">>
          [] text[i] = "\\" -> <<"\\", "\\">>
          [] OTHER -> <<text[i]>>])

Quote(text) == <<"\"">> \o Escape(text) \o <<"\"">>

\* the line break and indentation JSON.stringify writes before an item
Indent(indent, depth) ==
    IF indent = 0 THEN <<>>
    ELSE <<"\n">> \o [i \in 1..(indent * depth) |-> " "]

RECURSIVE Stringify(_, _, _)
\* JSON.stringify(value, null, indent), at nesting depth depth
Stringify(value, indent, depth) ==
    CASE value.t = "null" -> <<"null">>
      [] value.t = "boolean" -> <<IF value.v THEN "true" ELSE "false">>
      [] value.t = "number" -> <<NumberText[value.v]>>
      [] value.t = "string" -> Quote(value.v)
      [] value.t = "array" ->
            IF value.v = <<>> THEN <<"[", "]">>
            ELSE <<"[">>
                 \o Flatten([i \in 1..Len(value.v) |->
                        Indent(indent, depth + 1)
                        \o Stringify(value.v[i], indent, depth + 1)
                        \o (IF i < Len(value.v) THEN <<",">> ELSE <<>>)])
                 \o Indent(indent, depth) \o <<"]">>
      [] value.t = "object" ->
            IF value.v = <<>> THEN <<"{", "}">>
            ELSE <<"{">>
                 \o Flatten([i \in 1..Len(value.v) |->
                        Indent(indent, depth + 1)
                        \o Quote(<<value.v[i][1]>>) \o <<":">>
                        \o (IF indent = 0 THEN <<>> ELSE <<" ">>)
                        \o Stringify(value.v[i][2], indent, depth + 1)
                        \o (IF i < Len(value.v) THEN <<",">> ELSE <<>>)])
                 \o Indent(indent, depth) \o <<"}">>

\* value[key]
Get(value, key) ==
    IF value.t # "object" THEN Undefined
    ELSE LET found == {i \in 1..Len(value.v) : value.v[i][1] = key}
         IN  IF found = {} THEN Undefined ELSE value.v[SetMax(found)][2]

\* the truthiness of a value
Truthy(value) ==
    CASE value.t \in {"undefined", "null"} -> FALSE
      [] value.t = "boolean" -> value.v
      [] value.t = "number" -> value.v # 0
      [] value.t = "string" -> value.v # <<>>
      [] OTHER -> TRUE

NaN == [nan |-> TRUE, n |-> 0]
Finite(n) == [nan |-> FALSE, n |-> n]

\* Number(text): a blank string is 0, a numeral its number, NaN otherwise
StringToNumber(text) ==
    LET t == Trim(text)
    IN  IF t = <<>> THEN Finite(0)
        ELSE IF Len(t) = 1 /\ \E n \in Numbers : NumberText[n] = t[1]
        THEN Finite(CHOOSE n \in Numbers : NumberText[n] = t[1])
        ELSE NaN

\* Number(value); an array is converted through its string, followed here
\* for an array of at most one number, string or null
ToNumber(value) ==
    CASE value.t = "undefined" -> NaN
      [] value.t = "null" -> Finite(0)
      [] value.t = "boolean" -> Finite(IF value.v THEN 10 ELSE 0)
      [] value.t = "number" -> Finite(value.v)
      [] value.t = "string" -> StringToNumber(value.v)
      [] value.t = "array" ->
            IF value.v = <<>> THEN Finite(0)
            ELSE IF Len(value.v) = 1 /\ value.v[1].t = "number"
            THEN Finite(value.v[1].v)
            ELSE IF Len(value.v) = 1 /\ value.v[1].t = "string"
            THEN StringToNumber(value.v[1].v)
            ELSE IF Len(value.v) = 1 /\ value.v[1].t = "null"
            THEN Finite(0)
            ELSE NaN
      [] OTHER -> NaN

\* String(value) of a value that is not an object
StringOf(value) ==
    CASE value.t = "string" -> value.v
      [] value.t = "number" -> <<NumberText[value.v]>>
      [] value.t = "boolean" -> <<IF value.v THEN "true" ELSE "false">>
      [] value.t = "null" -> <<"null">>
      [] OTHER -> <<"undefined">>

(***************************************************************************)
(* JSON.parse, as the inverse of JSON.stringify on the values of the       *)
(* model: a text is the JSON text of a value if, trimmed, it is the value  *)
(* written compactly or with an indentation of 2.                          *)
(***************************************************************************)
\* {enhancedContent, improvementsSummary, confidence}: the shape the prompt
\* of getEnhancementPrompt asks the model for
Answer(enhancedContent, improvementsSummary, confidence) ==
    JObj(<< <<"enhancedContent", enhancedContent>>,
            <<"improvementsSummary", improvementsSummary>>,
            <<"confidence", confidence>> >>)

\* the contents, summaries and confidences of the well-formed answers
TidyContents == << <<"Hello", "\n", "world">>, <<"X">>, <<"a", " ", "b">> >>
TextSummaries == << <<>>, <<JStr(<<"a">>)>>, <<JStr(<<"a">>), JStr(<<"b">>)>> >>
UnitConfidences == <<5, 9, 10>>

\* answers as the prompt asks for them: a text, a sequence of texts, a
\* confidence in (0,1]
WellFormedAnswers ==
    [i \in 1..27 |->
        Answer(JStr(TidyContents[((i - 1) \div 9) + 1]),
               JArr(TextSummaries[(((i - 1) \div 3) % 3) + 1]),
               JNum(UnitConfidences[((i - 1) % 3) + 1]))]

\* the example of a clamped confidence
ClampedAnswer == Answer(JStr(<<"X">>), JArr(<<>>), JNum(15))

\* answers that are JSON of another shape
OtherAnswers ==
    << ClampedAnswer,
       Answer(JStr(<<"X">>), JStr(<<"b">>), JStr(<<"0.5">>)),
       Answer(JStr(<<"X">>), JNull, JNum(-5)),
       Answer(JStr(<<"X">>), JArr(<<JNum(5)>>), JNum(0)),
       Answer(JStr(<<"X">>), JArr(<<>>), JStr(<<"abc">>)),
       Answer(JStr(<<"X">>), JNum(5), JBool(TRUE)),
       Answer(JStr(<<"X">>), JArr(<<>>), JArr(<<JNum(50)>>)),
       Answer(JStr(<<"X">>), JArr(<<>>), JNull),
       Answer(JStr(<<" ", "a", " ", " ", "b", "\\", "n", "c", "\n", " ", "d", "\t">>),
              JArr(<<>>), JNum(9)),
       JObj(<< <<"enhancedContent", JStr(<<"X">>)>> >>),
       Answer(JNum(50), JArr(<<>>), JNum(9)),
       Answer(JBool(TRUE), JArr(<<>>), JNum(9)),
       Answer(JArr(<<JStr(<<"X">>)>>), JArr(<<>>), JNum(9)),
       Answer(JObj(<<>>), JArr(<<>>), JNum(9)),
       Answer(JStr(<<>>), JArr(<<>>), JNum(9)),
       Answer(JNull, JArr(<<>>), JNum(9)),
       Answer(JNum(0), JArr(<<>>), JNum(9)),
       JObj(<< <<"text", JStr(<<"X">>)>> >>),
       JObj(<<>>),
       JArr(<<JStr(<<"a">>)>>),
       JArr(<<>>),
       JNull, JBool(TRUE), JBool(FALSE), JNum(9), JNum(0),
       JStr(<<"plain">>), JStr(<<>>) >>

\* an answer encoded twice: a JSON string holding the JSON text of an answer
DoubleEncoded(answer) == JStr(Stringify(answer, 0, 0))

JsonValues ==
    WellFormedAnswers \o OtherAnswers
    \o <<DoubleEncoded(WellFormedAnswers[1]), DoubleEncoded(ClampedAnswer)>>

JsonTexts(value) == {Stringify(value, 0, 0), Stringify(value, 2, 0)}

JsonTextTable == [i \in 1..Len(JsonValues) |-> JsonTexts(JsonValues[i])]

\* JSON.parse(text): ok and the value, or not ok (SyntaxError)
JSONParse(text) ==
    LET found == {i \in 1..Len(JsonValues) : Trim(text) \in JsonTextTable[i]}
    IN  IF found = {} THEN [ok |-> FALSE, value |-> Undefined]
        ELSE [ok |-> TRUE, value |-> JsonValues[CHOOSE i \in found : TRUE]]

(***************************************************************************)
(* parseAIResponse.                                                        *)
(***************************************************************************)
\* an EnhancementResult; confidence in tenths
Result(enhancedContent, improvementsSummary, confidence) ==
    [threw |-> FALSE,
     enhancedContent |-> enhancedContent,
     improvementsSummary |-> improvementsSummary,
     confidence |-> confidence]

\* the call threw instead of returning a result
Thrown ==
    [threw |-> TRUE, enhancedContent |-> <<>>, improvementsSummary |-> <<>>,
     confidence |-> 0]

\* 'AI enhancement applied'
Applied == JStr(<<"AI enhancement applied">>)
\* 'AI enhancement applied (fallback parsing)'
AppliedFallback == JStr(<<"AI enhancement applied (fallback parsing)">>)

\* StripOpeningFence that knows the bare fence only
StripOpeningFence_NoTag(s) ==
    IF s # <<>> /\ Head(s) = Fence THEN TrimStart(Tail(s)) ELSE s

\* the first replace of cleanedResponse: an opening fence, the json tag if
\* there is one, and the whitespace after them
StripOpeningFence(s) ==
    IF s # <<>> /\ Head(s) = Fence
    THEN LET rest == Tail(s)
         IN  TrimStart(IF rest # <<>> /\ Head(rest) = "json" THEN Tail(rest) ELSE rest)
    ELSE s

\* the second replace of cleanedResponse: a closing fence at the end and the
\* whitespace before it
StripClosingFence(s) ==
    IF s # <<>> /\ s[Len(s)] = Fence THEN TrimEnd(SubSeq(s, 1, Len(s) - 1)) ELSE s

\* ClampConfidence without the upper limit
ClampConfidence_NoUpperBound(value) ==
    LET number == ToNumber(value)
        orDefault == IF number.nan \/ number.n = 0 THEN 8 ELSE number.n
    IN  IF orDefault > 0 THEN orDefault ELSE 0

\* Math.min(Math.max(Number(confidence) || 0.8, 0), 1)
ClampConfidence(value) ==
    LET number == ToNumber(value)
        orDefault == IF number.nan \/ number.n = 0 THEN 8 ELSE number.n
        atLeast0 == IF orDefault > 0 THEN orDefault ELSE 0
    IN  IF atLeast0 < 10 THEN atLeast0 ELSE 10

\* Array.isArray(s) ? s : [s || 'AI enhancement applied']
Summary(value) ==
    IF value.t = "array" THEN value.v
    ELSE <<IF Truthy(value) THEN value ELSE Applied>>

\* content.replace exists: formatEnhancedContent throws a TypeError for a
\* value that is not a string
Formattable(value) == value.t = "string"

\* the result built from an object with a string enhancedContent
Extracted(object) ==
    Result(formatEnhancedContent(Get(object, "enhancedContent").v),
           Summary(Get(object, "improvementsSummary")),
           ClampConfidence(Get(object, "confidence")))

\* Caught letting the error through
Caught_Rethrows(aiResponse) == Thrown

\* the outer catch: the final fallback
Caught(aiResponse) ==
    Result(formatEnhancedContent(aiResponse), <<AppliedFallback>>, 6)

parseAIResponse(aiResponse) ==
    LET cleanedResponse == StripClosingFence(StripOpeningFence(Trim(aiResponse)))
        json == JSONParse(cleanedResponse)
        parsedResponse == json.value
        innerJson == JSONParse(parsedResponse.v)
        innerParsed == innerJson.value
    IN  IF ~json.ok
        THEN \* not valid JSON
             Result(formatEnhancedContent(aiResponse), <<Applied>>, 8)
        ELSE IF Truthy(parsedResponse) /\ parsedResponse.t \in {"object", "array"}
        THEN IF Truthy(Get(parsedResponse, "enhancedContent"))
             THEN \* Case 1
                  IF Formattable(Get(parsedResponse, "enhancedContent"))
                  THEN Extracted(parsedResponse)
                  ELSE Caught(aiResponse)
             ELSE IF /\ parsedResponse.t = "string"
                     /\ Includes(parsedResponse.v, "enhancedContent")
                     /\ innerJson.ok
                     /\ innerParsed.t # "null"
                     /\ Truthy(Get(innerParsed, "enhancedContent"))
                     /\ Formattable(Get(innerParsed, "enhancedContent"))
             THEN \* Case 2
                  Extracted(innerParsed)
             ELSE \* Case 3
                  Result(formatEnhancedContent(
                             IF parsedResponse.t = "string" THEN parsedResponse.v
                             ELSE Stringify(parsedResponse, 2, 0)),
                         <<Applied>>, 7)
        ELSE \* Case 4
             Result(formatEnhancedContent(StringOf(parsedResponse)), <<Applied>>, 7)

(***************************************************************************)
(* getLocalFallback.                                                       *)
(***************************************************************************)
roleMap(level) ==
    CASE level = "spark" -> "You are a helpful assistant."
      [] level = "glow" -> "You are an expert consultant"
      [] level = "shine" -> "You are a master expert"
      [] OTHER -> "undefined"

instructions(level) ==
    CASE level = "spark" -> "Please provide a clear response."
      [] level = "glow" -> "Please think through this step-by-step"
      [] level = "shine" -> "Please analyze this systematically"
      [] OTHER -> "undefined"

getLocalFallbackEnhancement(content, level) ==
    <<roleMap(level), "\n", "\n">> \o content \o <<"\n", "\n", instructions(level)>>

getLocalFallback(options) ==
    Result(getLocalFallbackEnhancement(options.content, options.level),
           <<JStr(<<"Applied local enhancement (AI service unavailable)">>),
             JStr(<<"Content structure improved">>),
             JStr(<<"Basic formatting applied">>)>>,
           4)

(***************************************************************************)
(* getEnhancementPrompt.  The fixed paragraphs of the template are atoms.  *)
(***************************************************************************)
\* contextMap of the variant of the service that has no business context
contextMap_NoBusiness ==
    [context \in Contexts \ {"business"} |->
        CASE context = "technical" ->
                "software development, programming, and technical documentation"
          [] context = "creative" ->
                "creative writing, storytelling, and artistic expression"
          [] context = "analytical" ->
                "data analysis, research, and analytical thinking"
          [] context = "general" -> "general knowledge and communication"]

\* contextMap
contextMap ==
    [context \in Contexts |->
        CASE context = "technical" ->
                "software development, programming, and technical documentation"
          [] context = "creative" ->
                "creative writing, storytelling, and artistic expression"
          [] context = "analytical" ->
                "data analysis, research, and analytical thinking"
          [] context = "business" ->
                "business strategy, management, and commercial applications"
          [] context = "general" -> "general knowledge and communication"]

\* the JSON structure the template asks for
JsonStructure ==
    << "{", "\n",
       "\"enhancedContent\": ", "\"The fully enhanced [...] version of the given prompt [...].\"", ",", "\n",
       "\"improvementsSummary\": ", "[\"Detailed bullet points describing what was improved [...].\"]", ",", "\n",
       "\"confidence\": ", "0.85", "\n",
       "}" >>

\* lineConstraint: empty without a line count (undefined and 0 are falsy)
lineConstraint(lineCount) ==
    IF lineCount # 0
    THEN << "\n", "\n", "**CRITICAL LINE COUNT CONSTRAINT:** [...] EXACTLY ",
            ToString(lineCount), " lines long. [...] exactly ",
            ToString(lineCount), " lines [...] STRICT REQUIREMENT: ",
            ToString(lineCount), " lines only." >>
    ELSE <<>>

\* getEnhancementPrompt(content, level, context = 'general', lineCount); a
\* context that is no key of contextMap reads undefined
getEnhancementPrompt(content, level, context, lineCount) ==
    LET ctx == IF context = "undefined" THEN "general" ELSE context
        normalizedLevel == IF level = "shine" THEN "blaze" ELSE level
    IN  << "You are an *Elite Prompt Enhancement AI* [...] transform any given prompt (" >>
        \o content
        \o << ") into a [...] version [...]. The refinement level is determined by ",
              normalizedLevel, ", and you must adapt your enhancement strategy accordingly." >>
        \o lineConstraint(lineCount)
        \o << "\n", "\n", "You must analyze every phrase [...].", "\n", "\n",
              "Your final answer must strictly follow this JSON structure:", "\n", "\n" >>
        \o JsonStructure
        \o << "\n", "\n", "### Enhancement Framework:", "\n",
              "*1. Spark (Foundational Level)* [...]", "\n",
              "*2. Glow (Intermediate Level)* [...]", "\n",
              "*3. Blaze (Expert Level)* [...]", "\n",
              "### Special Instructions for Technical Contexts: [...]", "\n",
              "### Core Directives: [...]", "\n", "\n",
              "**Context:** ",
              IF ctx \in DOMAIN contextMap THEN contextMap[ctx] ELSE "undefined" >>
        \o lineConstraint(lineCount)
        \o << "\n", "**Original Prompt to Enhance:**", "\n" >>
        \o content
        \o << "\n", "\n", "Respond ONLY with the JSON object, no additional text." >>

\* the arguments the prompt builder is given: contents, one of them with
\* text of the template in it, every level, every context and none, with
\* and without a line count
PromptContents ==
    { <<"h", "i">>,
      <<"a", " ", "\n", "b">>,
      <<"**Context:** ", "general knowledge and communication">>,
      <<"{", "}">> }
PromptInputs ==
    [content : PromptContents,
     level : Levels,
     context : Contexts \cup {"undefined"},
     lineCount : {0, 3}]

(***************************************************************************)
(* The payloads the parser is given.                                       *)
(***************************************************************************)
\* a text between an opening fence, with or without the json tag, and a
\* closing fence
Fenced(text, tagged) ==
    <<Fence>> \o (IF tagged THEN <<"json">> ELSE <<>>) \o <<"\n">>
    \o text \o <<"\n", Fence>>

\* all but the end of a text
Truncated(text) == SubSeq(text, 1, Len(text) - 1)

\* the texts of at most MaxTextLen of these characters
FormatAlphabet == {"a", " ", "\n", "\\", "n"}
ShortTexts == UNION {[1..k -> FormatAlphabet] : k \in 0..MaxTextLen}

PlainTexts ==
    { <<"Just", " ", "some", " ", "text">>,
      <<" ", "Just", " ", " ", "some", "\n", "text", "\t">>,
      <<"Here", " ", "you", " ", "go:", "\n">> \o Stringify(ClampedAnswer, 0, 0) }

JsonPayloads ==
    UNION { { Stringify(JsonValues[i], 0, 0),
              Stringify(JsonValues[i], 2, 0),
              Fenced(Stringify(JsonValues[i], 0, 0), TRUE),
              Fenced(Stringify(JsonValues[i], 2, 0), FALSE),
              <<Fence, "json">> \o Stringify(JsonValues[i], 0, 0) \o <<Fence>>,
              Truncated(Stringify(JsonValues[i], 0, 0)) }
            : i \in 1..Len(JsonValues) }

ParserInputs == JsonPayloads \cup PlainTexts \cup ShortTexts

(***************************************************************************)
(* State.                                                                  *)
(***************************************************************************)
VARIABLES
    \* AIEnhancementService.connectionState
    connectionState,
    \* AIEnhancementService.consecutiveFailures
    consecutiveFailures,
    \* AIEnhancementService.isOfflineMode
    isOfflineMode,
    \* the module constant OPENROUTER_API_KEY is non-empty
    apiKeyConst,
    \* localStorage holds 'openrouter_api_key'
    storedKey,
    \* testAIConnection calls whose fetch is in flight
    probesInFlight,
    \* testAIConnection calls that returned false without a fetch and
    \* whose caller has not resumed yet
    probesNoKey,
    \* enhance calls made so far
    callsStarted,
    \* the enhance calls that run or have last run, see IdleCall
    calls,
    \* the response parser on its own: the payload it is given, whether it
    \* has been called and its result, and a text with the number of times
    \* formatEnhancedContent has been applied to it
    parser,
    \* the prompt builder on its own: the arguments it is given, the prompt
    \* it has built last and the number of times it has been called
    builder,
    \* a parameter of the specification, which no action changes: whether
    \* the model follows what is left of an attempt once its race is settled
    \* (a call of makeAIRequest that runs on, a timer that fires late)
    follow,
    \* refreshConnection() followed to the value it returns, see IdleRefresh
    refresh,
    \* the useRealtimeSuggestions hook of one mounted component, see IdleHook
    hook

vars == <<connectionState, consecutiveFailures, isOfflineMode, apiKeyConst,
          storedKey, probesInFlight, probesNoKey, callsStarted, calls, parser,
          builder, follow, refresh, hook>>

service == <<connectionState, consecutiveFailures>>
environment == <<isOfflineMode, apiKeyConst, storedKey, probesInFlight,
                 probesNoKey, callsStarted, parser, builder, follow, refresh, hook>>

\* the text a model may answer with (data.choices[0].message.content): the
\* answer asked for, in fences, or plain text
Payloads ==
    { Fenced(Stringify(WellFormedAnswers[1], 2, 0), TRUE),
      <<"Just", " ", "some", " ", "text">> }
\* HTTP statuses of a response that is not ok
ErrorStatuses == {"429", "500"}

\* the retry-after header of a 429 response: none (headers.get gives null),
\* a number of seconds, or an HTTP date
RetryAfterHeaders ==
    { <<>>, <<"60">>, <<"Wed,", " ", "21", " ", "Oct", " ", "2026">> }
\* the numerals of the headers
Numerals == [numeral \in {"21", "60", "2026"} |->
                CASE numeral = "21" -> 21
                  [] numeral = "60" -> 60
                  [] numeral = "2026" -> 2026]

\* parseInt(text): the integer a text starts with, after white space, or NaN
parseInt(text) ==
    LET t == TrimStart(text)
    IN  IF t # <<>> /\ Head(t) \in DOMAIN Numerals
        THEN Finite(Numerals[Head(t)])
        ELSE NaN

\* waitTime of makeAIRequest, as the delay setTimeout makes of it: NaN is 0
waitTime(retryAfter) ==
    IF retryAfter # <<>>
    THEN IF parseInt(retryAfter).nan THEN 0 ELSE parseInt(retryAfter).n * 1000
    ELSE 5000

(***************************************************************************)
(* One enhance call.  pc is where the call is suspended:                   *)
(*   idle      enhance has not been called                                 *)
(*   fetch     await fetch(...) in makeAIRequest                           *)
(*   body      await response.json() of an ok response                     *)
(*   ratelimit the wait of a 429 response in makeAIRequest                 *)
(*   backoff   the delay between two attempts in enhanceWithRetry          *)
(*   returned, rejected   the promise of enhance is settled                *)
(* model and attempt are the loop variables of enhanceWithRetry.  The      *)
(* other fields record what happened: log the attempts started, netCalls   *)
(* the fetches issued, failedAttempts the attempts that threw, response    *)
(* the answer of the attempt that succeeded (model, attempt, text),        *)
(* stateAtEnd and failuresAtReturn the service's state when the call       *)
(* settled.  requestTimer is the timer of makeAIRequest and raceTimer the   *)
(* timer of makeAIRequestWithTimeout, of the attempt that started last:    *)
(* unset, pending, cleared, fired, or expired: fired after the race was    *)
(* settled.  While an attempt is pending adaptiveTimeout is the delay of   *)
(* its race timer and waitTime the delay of its 429 wait; delay is the     *)
(* delay of the backoff the call is in (ms).  abandoned is the call of     *)
(* makeAIRequest of the last attempt that lost its race while suspended    *)
(* after the response: it runs on in response.json() (read) or in the 429  *)
(* wait (wait), or there is none that still runs (none).                   *)
(***************************************************************************)
IdleCall ==
    [pc |-> "idle",
     options |-> CHOOSE o \in Requests : ValidRequest(o),
     signalAborted |-> FALSE,
     promptAnswer |-> "none",
     model |-> 1,
     attempt |-> 1,
     lastError |-> NoError,
     result |-> "none",
     error |-> NoError,
     log |-> <<>>,
     netCalls |-> 0,
     failedAttempts |-> 0,
     abortedAtStart |-> FALSE,
     response |-> "none",
     stateAtEnd |-> "none",
     failuresAtReturn |-> -1,
     requestTimer |-> "unset",
     raceTimer |-> "unset",
     adaptiveTimeout |-> 0,
     waitTime |-> 0,
     delay |-> 0,
     abandoned |-> "none"]

\* the prompt builder not in use
IdleBuilder ==
    [content |-> <<>>, level |-> "spark", context |-> "general", lineCount |-> 0,
     prompt |-> <<>>, builds |-> 0]

\* refreshConnection() not called.  pc is where a call is suspended: probing
\* (the fetch of testAIConnection is in flight), nokey (testAIConnection has
\* returned false without a fetch), or done: it has returned.  credential
\* is whether testAIConnection found a key, fetches the requests it issued,
\* isConnected what it returned, failuresBefore the counter when
\* checkConnectionStatus resumed, returned the value of refreshConnection,
\* and refreshes the number of calls made
IdleRefresh ==
    [pc |-> "idle", credential |-> FALSE, fetches |-> 0, isConnected |-> FALSE,
     failuresBefore |-> 0, returned |-> FALSE, refreshes |-> 0]

\* useRealtimeSuggestions after its first render with an empty content.
\* edits counts the changes of the content and valid is whether the content
\* is long enough for a request; isLoading, error (a message is set) and
\* suggestions (the call they are made from, 0 for none) are the state of
\* the hook; timer is the edit whose debounce timer is pending, 0 for none;
\* controller is the call whose AbortController abortControllerRef holds, 0
\* for none; requests are the calls whose await in the timer's callback has
\* not resumed
IdleHook ==
    [edits |-> 0, valid |-> FALSE, isLoading |-> FALSE, error |-> FALSE,
     suggestions |-> 0, timer |-> 0, controller |-> 0, requests |-> {}]

\* the parser not in use
IdleParser ==
    [aiResponse |-> <<>>,
     done |-> FALSE,
     result |-> Result(<<>>, <<>>, 0),
     content |-> <<>>,
     fedBack |-> FALSE,
     passes |-> 0]

Init ==
    /\ connectionState = "unknown"
    /\ consecutiveFailures = 0
    /\ isOfflineMode = FALSE
    /\ apiKeyConst \in BOOLEAN
    /\ storedKey = FALSE
    \* the constructor calls checkConnectionStatus()
    /\ probesInFlight = IF apiKeyConst THEN 1 ELSE 0
    /\ probesNoKey = IF apiKeyConst THEN 0 ELSE 1
    /\ callsStarted = 0
    /\ calls = [c \in Calls |-> IdleCall]
    /\ parser = IdleParser
    /\ builder = IdleBuilder
    /\ follow = FALSE
    /\ refresh = IdleRefresh
    /\ hook = IdleHook

(***************************************************************************)
(* enhanceWithRetry, from one suspension to the next.  Each operator takes *)
(* the call, consecutiveFailures and connectionState and gives the three   *)
(* as the code leaves them: [call, cf, cs].                                *)
(***************************************************************************)
RECURSIVE BeginAttempt(_, _, _)
RECURSIVE AttemptFailed(_, _, _, _)

\* parseAIResponse of each payload, computed once
ParsedPayloads == [p \in Payloads |-> parseAIResponse(p)]

\* makeAIRequest: return parseAIResponse(aiResponse)
ResultOf(aiResponse) == ParsedPayloads[aiResponse]

\* AttemptSucceeded without the reset of consecutiveFailures
AttemptSucceeded_KeepsFailures(call, cf, cs, res) ==
    [call |-> [call EXCEPT !.pc = "returned", !.result = res],
     cf |-> cf,
     cs |-> "connected"]

\* AttemptSucceeded without the return: the loop goes on to its delay
AttemptSucceeded_GoesOn(call, cf, cs, res) ==
    [call |-> [call EXCEPT !.pc = "backoff", !.result = res],
     cf |-> 0,
     cs |-> "connected"]

\* the try block after the await: the attempt resolved with a result
AttemptSucceeded(call, cf, cs, res) ==
    [call |-> [call EXCEPT !.pc = "returned", !.result = res,
                           !.adaptiveTimeout = 0],
     cf |-> 0,
     cs |-> "connected"]

\* AllModelsFailed returning the local fallback instead of throwing
AllModelsFailed_FallsBack(call, cf, cs) ==
    [call |-> [call EXCEPT !.pc = "returned",
                           !.result = getLocalFallback(call.options)],
     cf |-> cf,
     cs |-> "disconnected"]

\* AllModelsFailed without the assignment to connectionState
AllModelsFailed_KeepsState(call, cf, cs) ==
    [call |-> [call EXCEPT !.pc = "rejected",
                           !.error = ExhaustedError(call.lastError)],
     cf |-> cf,
     cs |-> cs]

\* the code after the two loops: every model failed
AllModelsFailed(call, cf, cs) ==
    [call |-> [call EXCEPT !.pc = "rejected",
                           !.error = ExhaustedError(call.lastError)],
     cf |-> cf,
     cs |-> "disconnected"]

\* AttemptFailed with the inner loop left at the first failure
AttemptFailed_NoRetry(call, cf, cs, err) ==
    LET failed == [call EXCEPT !.lastError = err, !.failedAttempts = @ + 1]
    IN  IF call.model < Len(models)
        THEN BeginAttempt([failed EXCEPT !.model = @ + 1, !.attempt = 1], cf + 1, cs)
        ELSE AllModelsFailed(failed, cf + 1, cs)

\* AttemptFailed writing the counter from the failures of its own call
AttemptFailed_OwnCount(call, cf, cs, err) ==
    LET failed == [call EXCEPT !.lastError = err, !.failedAttempts = @ + 1,
                               !.adaptiveTimeout = 0, !.waitTime = 0]
    IN  IF call.attempt < maxRetries
        THEN [call |-> [failed EXCEPT !.pc = "backoff",
                                      !.delay = backoffDelay(call.attempt)],
              cf |-> failed.failedAttempts, cs |-> cs]
        ELSE IF call.model < Len(models)
        THEN BeginAttempt([failed EXCEPT !.model = @ + 1, !.attempt = 1],
                          failed.failedAttempts, cs)
        ELSE AllModelsFailed(failed, failed.failedAttempts, cs)

\* AttemptFailed keeping the error of the first attempt that failed
AttemptFailed_KeepsFirstError(call, cf, cs, err) ==
    LET failed == [call EXCEPT
                      !.lastError = IF @ = NoError THEN err ELSE @,
                      !.failedAttempts = @ + 1,
                      !.adaptiveTimeout = 0, !.waitTime = 0]
    IN  IF call.attempt < maxRetries
        THEN [call |-> [failed EXCEPT !.pc = "backoff",
                                      !.delay = backoffDelay(call.attempt)],
              cf |-> cf + 1, cs |-> cs]
        ELSE IF call.model < Len(models)
        THEN BeginAttempt([failed EXCEPT !.model = @ + 1, !.attempt = 1], cf + 1, cs)
        ELSE AllModelsFailed(failed, cf + 1, cs)

\* the catch block, then the loops up to the next await
AttemptFailed(call, cf, cs, err) ==
    LET failed == [call EXCEPT !.lastError = err, !.failedAttempts = @ + 1,
                               !.adaptiveTimeout = 0, !.waitTime = 0]
    IN  IF call.attempt < maxRetries
        THEN [call |-> [failed EXCEPT !.pc = "backoff",
                                      !.delay = backoffDelay(call.attempt)],
              cf |-> cf + 1, cs |-> cs]
        ELSE IF call.model < Len(models)
        THEN BeginAttempt([failed EXCEPT !.model = @ + 1, !.attempt = 1], cf + 1, cs)
        ELSE AllModelsFailed(failed, cf + 1, cs)

\* BeginAttempt without the check of the signal
BeginAttempt_NoSignalCheck(call, cf, cs) ==
    [call |-> [call EXCEPT !.log = Append(@, <<call.model, call.attempt>>),
                           !.pc = "fetch",
                           !.netCalls = @ + 1,
                           !.requestTimer = "pending",
                           !.raceTimer = "pending",
                           !.adaptiveTimeout = adaptiveTimeout(cf),
                           !.waitTime = 0,
                           !.delay = 0],
     cf |-> cf,
     cs |-> cs]

\* one iteration of the inner loop up to its await: makeAIRequestWithTimeout
\* checks the signal and computes its timeout from consecutiveFailures,
\* makeAIRequest sets its timer and issues the fetch,
\* makeAIRequestWithTimeout sets the timer of the race
BeginAttempt(call, cf, cs) ==
    LET logged == [call EXCEPT !.log = Append(@, <<call.model, call.attempt>>),
                               !.requestTimer = "unset",
                               !.raceTimer = "unset",
                               !.adaptiveTimeout = 0,
                               !.waitTime = 0,
                               !.delay = 0]
    IN  IF call.signalAborted
        THEN AttemptFailed(logged, cf, cs, CancelledError)
        ELSE [call |-> [logged EXCEPT !.pc = "fetch",
                                      !.netCalls = @ + 1,
                                      !.requestTimer = "pending",
                                      !.raceTimer = "pending",
                                      !.adaptiveTimeout = adaptiveTimeout(cf)],
              cf |-> cf,
              cs |-> cs]

\* EnterEnhance going on without a key
EnterEnhance_NoKeyCheck(call, cf, cs, offline) ==
    IF offline
    THEN [call |-> [call EXCEPT !.pc = "rejected", !.error = OfflineError],
          cf |-> cf, cs |-> cs]
    ELSE BeginAttempt(call, cf, cs)

\* EnterEnhance refusing the call whenever the state reads disconnected
EnterEnhance_GatesOnState(call, cf, cs, offline) ==
    IF call.promptAnswer = "dismissed"
    THEN [call |-> [call EXCEPT !.pc = "rejected", !.error = ApiKeyError],
          cf |-> cf, cs |-> cs]
    ELSE IF offline \/ cs = "disconnected"
    THEN [call |-> [call EXCEPT !.pc = "rejected", !.error = OfflineError],
          cf |-> cf, cs |-> cs]
    ELSE BeginAttempt(call, cf, cs)

\* EnterEnhance going on while the device is offline
EnterEnhance_IgnoresOffline(call, cf, cs, offline) ==
    IF call.promptAnswer = "dismissed"
    THEN [call |-> [call EXCEPT !.pc = "rejected", !.error = ApiKeyError],
          cf |-> cf, cs |-> cs]
    ELSE BeginAttempt(call, cf, cs)

\* enhanceWithRetry up to its first await or throw
EnterEnhance(call, cf, cs, offline) ==
    IF call.promptAnswer = "dismissed"
    THEN [call |-> [call EXCEPT !.pc = "rejected", !.error = ApiKeyError],
          cf |-> cf, cs |-> cs]
    ELSE IF offline
    THEN [call |-> [call EXCEPT !.pc = "rejected", !.error = OfflineError],
          cf |-> cf, cs |-> cs]
    ELSE BeginAttempt(call, cf, cs)

\* the call and the service after the step r of call c; a call that settles
\* in the step records the state it leaves the service in
Settle(c, r) ==
    /\ calls' = [calls EXCEPT ![c] =
            [r.call EXCEPT
               !.stateAtEnd =
                   IF r.call.pc \in {"returned", "rejected"} THEN r.cs ELSE "none",
               !.failuresAtReturn =
                   IF r.call.pc = "returned" THEN r.cf ELSE -1]]
    /\ consecutiveFailures' = r.cf
    /\ connectionState' = r.cs

Suspended(c) == calls[c].pc \in {"fetch", "body", "ratelimit", "backoff"}
Finished(c) == calls[c].pc \in {"returned", "rejected"}

(***************************************************************************)
(* The actions of an enhance call.                                         *)
(***************************************************************************)
\* enhance(options) is called, with a signal that may be aborted already;
\* the key prompt, if shown, is answered
StartCallWith(c, requests) ==
    /\ ~Suspended(c)
    /\ callsStarted < MaxCalls
    /\ callsStarted' = callsStarted + 1
    /\ \E o \in requests, aborted \in BOOLEAN, answer \in {"key", "dismissed"} :
         LET ans == IF apiKeyConst THEN "none" ELSE answer
             call == [IdleCall EXCEPT !.options = o,
                                     !.signalAborted = aborted,
                                     !.abortedAtStart = aborted,
                                     !.promptAnswer = ans]
         IN  /\ Settle(c, EnterEnhance(call, consecutiveFailures,
                                       connectionState, isOfflineMode))
             /\ storedKey' = (storedKey \/ ans = "key")
    /\ UNCHANGED <<isOfflineMode, apiKeyConst, probesInFlight, probesNoKey, parser,
                   builder, follow, refresh, hook>>

\* enhance is called with a valid request
StartCall(c) == StartCallWith(c, ValidRequests)

\* enhance is called with any request
StartCallAny(c) == StartCallWith(c, Requests)

\* the response of the fetch arrives: ok, or with an error status
FetchResponds(c) ==
    /\ calls[c].pc = "fetch"
    /\ LET responded == [calls[c] EXCEPT !.requestTimer = "cleared"]
       IN  \/ /\ calls' = [calls EXCEPT ![c] = [responded EXCEPT !.pc = "body"]]
              /\ UNCHANGED service
           \/ \E retryAfter \in RetryAfterHeaders :
                /\ calls' = [calls EXCEPT ![c] =
                       [responded EXCEPT !.pc = "ratelimit",
                                         !.waitTime = waitTime(retryAfter)]]
                /\ UNCHANGED service
           \/ \E status \in ErrorStatuses \ {"429"}, text \in ServerMessages :
                Settle(c, AttemptFailed(responded, consecutiveFailures,
                                        connectionState, HttpError(status, text)))
    /\ UNCHANGED environment

\* the fetch rejects: transport failure; the finally block clears the timer
FetchFails(c) ==
    /\ calls[c].pc = "fetch"
    /\ Settle(c, AttemptFailed([calls[c] EXCEPT !.requestTimer = "cleared"],
                               consecutiveFailures, connectionState,
                               NetworkError))
    /\ UNCHANGED environment

\* the timer of makeAIRequest (REQUEST_CONFIG.timeout) fires and aborts the
\* fetch; it is cleared as soon as the response has arrived
RequestTimerFires(c) ==
    /\ calls[c].pc = "fetch"
    /\ Settle(c, AttemptFailed([calls[c] EXCEPT !.requestTimer = "fired"],
                               consecutiveFailures, connectionState,
                               AbortError))
    /\ UNCHANGED environment

\* the race of an attempt is settled by its timer or by the abort listener
\* while makeAIRequest is suspended after the response: nothing aborts
\* response.json() (the controller is aborted by the request timer only,
\* which is cleared) and nothing clears the timer of the 429 wait
Abandoned(call) ==
    [call EXCEPT !.abandoned = IF ~follow THEN @
                               ELSE IF call.pc = "body" THEN "read" ELSE "wait"]

\* the timer of makeAIRequestWithTimeout fires.  It is set after the request
\* timer, so it wins while the fetch is pending only if its delay is shorter
\* than REQUEST_CONFIG.timeout; the response has arrived less than
\* REQUEST_CONFIG.timeout after the attempt started, so the timer wins
\* against a 429 wait only if the wait is longer than what is left
RaceTimerFires(c) ==
    /\ calls[c].pc \in {"fetch", "body", "ratelimit"}
    /\ calls[c].pc = "fetch" => calls[c].adaptiveTimeout < timeout
    /\ calls[c].pc = "ratelimit" =>
          calls[c].waitTime + timeout > calls[c].adaptiveTimeout
    /\ Settle(c, AttemptFailed([Abandoned(calls[c]) EXCEPT !.raceTimer = "fired"],
                               consecutiveFailures, connectionState,
                               TimeoutError))
    /\ UNCHANGED environment

\* response.json() settles; an envelope without content is a failure, and so
\* is one that is not JSON; the content is parsed
BodyArrives(c) ==
    /\ calls[c].pc = "body"
    /\ \/ \E p \in Payloads :
            LET served == [calls[c] EXCEPT
                              !.response = <<calls[c].model, calls[c].attempt, p>>]
            IN  IF ResultOf(p).threw
                THEN Settle(c, AttemptFailed(calls[c], consecutiveFailures,
                                             connectionState, ParserError))
                ELSE Settle(c, AttemptSucceeded(served, consecutiveFailures,
                                                connectionState, ResultOf(p)))
       \/ Settle(c, AttemptFailed(calls[c], consecutiveFailures, connectionState,
                                  NoResponseError))
       \/ Settle(c, AttemptFailed(calls[c], consecutiveFailures, connectionState,
                                  SyntaxError))
    /\ UNCHANGED environment

\* the wait of a 429 response ends before the timer of the race fires, and
\* makeAIRequest throws
RateLimitWaitEnds(c) ==
    /\ calls[c].pc = "ratelimit"
    /\ calls[c].waitTime < calls[c].adaptiveTimeout
    /\ \E text \in ServerMessages :
         Settle(c, AttemptFailed(calls[c], consecutiveFailures, connectionState,
                                 HttpError("429", text)))
    /\ UNCHANGED environment

\* the delay after a failed attempt ends: attempt++ and the next iteration
BackoffEnds(c) ==
    /\ calls[c].pc = "backoff"
    /\ Settle(c, BeginAttempt([calls[c] EXCEPT !.attempt = @ + 1],
                              consecutiveFailures, connectionState))
    /\ UNCHANGED environment

\* the signal of a running call is aborted; the listener of a pending
\* attempt clears the timer of the race and rejects the race; a pending
\* fetch rejects and the finally block of makeAIRequest clears its timer; a
\* pending response.json() rejects, of this attempt and of earlier ones (the
\* signal of every fetch includes the caller's); a 429 wait goes on
SignalAborts(call, cf, cs) ==
    LET aborted == [call EXCEPT
                       !.signalAborted = TRUE,
                       !.abandoned = IF @ = "read" THEN "none" ELSE @]
        torndown == [aborted EXCEPT
                        !.raceTimer = "cleared",
                        !.requestTimer =
                            IF call.pc = "fetch" THEN "cleared" ELSE @,
                        !.abandoned =
                            IF call.pc = "ratelimit"
                            THEN Abandoned(call).abandoned ELSE @]
    IN  IF call.pc \in {"fetch", "body", "ratelimit"}
        THEN AttemptFailed(torndown, cf, cs, CancelledError)
        ELSE [call |-> aborted, cf |-> cf, cs |-> cs]

\* the caller aborts the signal of a running call
Abort(c) ==
    /\ Suspended(c)
    /\ ~calls[c].signalAborted
    /\ Settle(c, SignalAborts(calls[c], consecutiveFailures, connectionState))
    /\ UNCHANGED environment

\* LateResolution taking the late result as the result of the call
LateResolution_Wins(call, cf, cs, path) ==
    AttemptSucceeded([call EXCEPT !.abandoned = "none"],
                     cf, cs, getLocalFallback(call.options))

\* a path of a race that is settled resolves: a call of makeAIRequest that
\* went on returns or throws, or the timer of the race fires and rejects.
\* Promise.race has taken the first outcome; enhanceWithRetry awaits nothing
\* of the old race
LateResolution(call, cf, cs, path) ==
    [call |-> [call EXCEPT
                  !.abandoned = IF path \in {"read", "wait"} THEN "none" ELSE @,
                  !.raceTimer = IF path = "timer" THEN "expired" ELSE @],
     cf |-> cf,
     cs |-> cs]

\* the call and the service after a late resolution r in call c
Late(c, r) ==
    /\ calls' = [calls EXCEPT ![c] = r.call]
    /\ consecutiveFailures' = r.cf
    /\ connectionState' = r.cs

\* response.json() of an attempt that timed out settles, and makeAIRequest
\* returns the parsed result or throws
OrphanReadSettles(c) ==
    /\ calls[c].abandoned = "read"
    /\ Late(c, LateResolution(calls[c], consecutiveFailures, connectionState,
                              "read"))
    /\ UNCHANGED environment

\* the 429 wait of an attempt that timed out or was cancelled ends, and
\* makeAIRequest throws
OrphanWaitEnds(c) ==
    /\ calls[c].abandoned = "wait"
    /\ Late(c, LateResolution(calls[c], consecutiveFailures, connectionState,
                              "wait"))
    /\ UNCHANGED environment

\* the timer of a race fires after makeAIRequest has settled the race
RaceTimerFiresLate(c) ==
    /\ calls[c].pc \in {"backoff", "returned", "rejected"}
    /\ calls[c].raceTimer = "pending"
    /\ Late(c, LateResolution(calls[c], consecutiveFailures, connectionState,
                              "timer"))
    /\ UNCHANGED environment

(***************************************************************************)
(* The actions of the service.                                             *)
(***************************************************************************)
\* testAIConnection up to its await: without a key it returns false
StartProbe ==
    /\ probesInFlight + probesNoKey < MaxProbes
    /\ IF apiKeyConst \/ storedKey
       THEN /\ probesInFlight' = probesInFlight + 1
            /\ UNCHANGED probesNoKey
       ELSE /\ probesNoKey' = probesNoKey + 1
            /\ UNCHANGED probesInFlight

\* window 'offline' event
Offline ==
    /\ ~isOfflineMode
    /\ isOfflineMode' = TRUE
    /\ connectionState' = "disconnected"
    /\ UNCHANGED <<consecutiveFailures, apiKeyConst, storedKey, probesInFlight,
                   probesNoKey, callsStarted, calls, parser, builder, follow, refresh, hook>>

\* Online forgetting the state the service was in
Online_ForgetsState ==
    /\ isOfflineMode
    /\ isOfflineMode' = FALSE
    /\ connectionState' = "unknown"
    /\ StartProbe
    /\ UNCHANGED <<consecutiveFailures, apiKeyConst, storedKey,
                   callsStarted, calls, parser, builder, follow, refresh, hook>>

\* window 'online' event
Online ==
    /\ isOfflineMode
    /\ isOfflineMode' = FALSE
    /\ StartProbe
    /\ UNCHANGED <<connectionState, consecutiveFailures, apiKeyConst, storedKey,
                   callsStarted, calls, parser, builder, follow, refresh, hook>>

\* refreshConnection() is called
RefreshConnection ==
    /\ StartProbe
    /\ UNCHANGED <<connectionState, consecutiveFailures, isOfflineMode,
                   apiKeyConst, storedKey, callsStarted, calls, parser, builder, follow, refresh, hook>>

\* checkConnectionStatus after its await, the probe's fetch settled
ProbeResponds ==
    /\ probesInFlight > 0
    /\ probesInFlight' = probesInFlight - 1
    /\ \E isConnected \in BOOLEAN :
         /\ connectionState' = IF isConnected THEN "connected" ELSE "disconnected"
         /\ consecutiveFailures' = IF isConnected THEN 0 ELSE consecutiveFailures
    /\ UNCHANGED <<isOfflineMode, apiKeyConst, storedKey, probesNoKey,
                   callsStarted, calls, parser, builder, follow, refresh, hook>>

\* checkConnectionStatus after its await, testAIConnection found no key
ProbeWithoutKey ==
    /\ probesNoKey > 0
    /\ probesNoKey' = probesNoKey - 1
    /\ connectionState' = "disconnected"
    /\ UNCHANGED <<consecutiveFailures, isOfflineMode, apiKeyConst, storedKey,
                   probesInFlight, callsStarted, calls, parser, builder, follow, refresh, hook>>

\* checkConnectionStatus keeping the counter of failures
checkConnectionStatus_KeepsFailures(isConnected, cf) ==
    [cs |-> IF isConnected THEN "connected" ELSE "disconnected",
     cf |-> cf]

\* checkConnectionStatus after its await: the state and the counter it
\* leaves, from what testAIConnection returned
checkConnectionStatus(isConnected, cf) ==
    [cs |-> IF isConnected THEN "connected" ELSE "disconnected",
     cf |-> IF isConnected THEN 0 ELSE cf]

\* refreshConnection() is called: checkConnectionStatus and testAIConnection
\* up to the await; without a key testAIConnection returns false
RefreshCalled ==
    /\ refresh.pc \in {"idle", "done"}
    /\ refresh.refreshes < MaxRefreshes
    /\ LET credential == apiKeyConst \/ storedKey
       IN  refresh' = [IdleRefresh EXCEPT
                          !.pc = IF credential THEN "probing" ELSE "nokey",
                          !.credential = credential,
                          !.fetches = IF credential THEN 1 ELSE 0,
                          !.refreshes = refresh.refreshes + 1]
    /\ UNCHANGED <<connectionState, consecutiveFailures, isOfflineMode,
                   apiKeyConst, storedKey, probesInFlight, probesNoKey,
                   callsStarted, calls, parser, builder, follow, hook>>

\* the probe of refreshConnection settles: response.ok, or false when the
\* fetch rejects or there was no key; checkConnectionStatus writes the state
\* and refreshConnection returns what it reads
RefreshResumes ==
    /\ refresh.pc \in {"probing", "nokey"}
    /\ \E ok \in BOOLEAN :
         LET isConnected == refresh.pc = "probing" /\ ok
             r == checkConnectionStatus(isConnected, consecutiveFailures)
         IN  /\ refresh.pc = "nokey" => ~ok
             /\ connectionState' = r.cs
             /\ consecutiveFailures' = r.cf
             /\ refresh' = [refresh EXCEPT
                               !.pc = "done",
                               !.isConnected = isConnected,
                               !.failuresBefore = consecutiveFailures,
                               !.returned = (r.cs = "connected")]
    /\ UNCHANGED <<isOfflineMode, apiKeyConst, storedKey, probesInFlight,
                   probesNoKey, callsStarted, calls, parser, builder, follow, hook>>

Next ==
    \/ \E c \in Calls : StartCall(c)
    \/ \E c \in Calls : FetchResponds(c)
    \/ \E c \in Calls : FetchFails(c)
    \/ \E c \in Calls : RequestTimerFires(c)
    \/ \E c \in Calls : RaceTimerFires(c)
    \/ \E c \in Calls : BodyArrives(c)
    \/ \E c \in Calls : RateLimitWaitEnds(c)
    \/ \E c \in Calls : BackoffEnds(c)
    \/ \E c \in Calls : Abort(c)
    \/ Offline
    \/ Online
    \/ RefreshConnection
    \/ ProbeResponds
    \/ ProbeWithoutKey

Spec == Init /\ [][Next]_vars

\* one step of a running call that no caller has to take: a response, or one
\* of the timers the call has set
CallStep(c) ==
    \/ FetchResponds(c)
    \/ FetchFails(c)
    \/ RequestTimerFires(c)
    \/ RaceTimerFires(c)
    \/ BodyArrives(c)
    \/ RateLimitWaitEnds(c)
    \/ BackoffEnds(c)

\* Every suspension of a call has a pending timer (the request timer while
\* the fetch is pending, the race timer after it, the wait and the delay
\* timers), and the event loop runs a timer that is due.
FairSpec == Spec /\ \A c \in Calls : WF_vars(CallStep(c))

\* The same service, called with any request, valid or not.
NextRequests ==
    \/ \E c \in Calls : StartCallAny(c)
    \/ \E c \in Calls : FetchResponds(c)
    \/ \E c \in Calls : FetchFails(c)
    \/ \E c \in Calls : RequestTimerFires(c)
    \/ \E c \in Calls : RaceTimerFires(c)
    \/ \E c \in Calls : BodyArrives(c)
    \/ \E c \in Calls : RateLimitWaitEnds(c)
    \/ \E c \in Calls : BackoffEnds(c)
    \/ \E c \in Calls : Abort(c)
    \/ Offline
    \/ Online
    \/ RefreshConnection
    \/ ProbeResponds
    \/ ProbeWithoutKey

SpecRequests == Init /\ [][NextRequests]_vars

\* The same service with a key in the code, followed beyond the outcome of
\* each attempt.
InitRace ==
    /\ connectionState = "unknown"
    /\ consecutiveFailures = 0
    /\ isOfflineMode = FALSE
    /\ apiKeyConst = TRUE
    /\ storedKey = FALSE
    /\ probesInFlight = 1
    /\ probesNoKey = 0
    /\ callsStarted = 0
    /\ calls = [c \in Calls |-> IdleCall]
    /\ parser = IdleParser
    /\ builder = IdleBuilder
    /\ follow = TRUE
    /\ refresh = IdleRefresh
    /\ hook = IdleHook

NextRace ==
    \/ \E c \in Calls : StartCall(c)
    \/ \E c \in Calls : FetchResponds(c)
    \/ \E c \in Calls : FetchFails(c)
    \/ \E c \in Calls : RequestTimerFires(c)
    \/ \E c \in Calls : RaceTimerFires(c)
    \/ \E c \in Calls : BodyArrives(c)
    \/ \E c \in Calls : RateLimitWaitEnds(c)
    \/ \E c \in Calls : BackoffEnds(c)
    \/ \E c \in Calls : Abort(c)
    \/ \E c \in Calls : OrphanReadSettles(c)
    \/ \E c \in Calls : OrphanWaitEnds(c)
    \/ \E c \in Calls : RaceTimerFiresLate(c)
    \/ Offline
    \/ Online
    \/ RefreshConnection
    \/ ProbeResponds

SpecRace == InitRace /\ [][NextRace]_vars

\* Two calls of enhance that overlap (the editor restarts an enhancement
\* 100 ms after it has aborted the one that runs, and the suggestions hook
\* and the editor call the same service), on a service with a key; each
\* with a signal aborted already or never aborted, and with fetches that
\* get no response: they fail, or the request timer aborts them.
Overlapping == {1, 2}

InitOverlap ==
    /\ connectionState = "unknown"
    /\ consecutiveFailures = 0
    /\ isOfflineMode = FALSE
    /\ apiKeyConst = TRUE
    /\ storedKey = FALSE
    /\ probesInFlight = 1
    /\ probesNoKey = 0
    /\ callsStarted = 0
    /\ calls = [c \in Overlapping |-> IdleCall]
    /\ parser = IdleParser
    /\ builder = IdleBuilder
    /\ follow = FALSE
    /\ refresh = IdleRefresh
    /\ hook = IdleHook

\* enhance is called while the other call may be running
StartOverlapping(c) ==
    /\ calls[c].pc = "idle"
    /\ StartCall(c)

NextOverlap ==
    \/ \E c \in Overlapping : StartOverlapping(c)
    \/ \E c \in Overlapping : FetchFails(c)
    \/ \E c \in Overlapping : RequestTimerFires(c)
    \/ \E c \in Overlapping : BackoffEnds(c)
    \/ ProbeResponds

SpecOverlap == InitOverlap /\ [][NextOverlap]_vars

\* the fetch of call c gets a response that is ok
AnswersOk(c) ==
    /\ FetchResponds(c)
    /\ calls'[c].pc = "body"

\* the body of the response to call c is one parseAIResponse accepts
Served(c) ==
    /\ BodyArrives(c)
    /\ calls'[c].pc = "returned"

\* Two calls of enhance that overlap, with fetches that fail in transport or
\* get an answer the call returns.
NextLast ==
    \/ \E c \in Overlapping : StartOverlapping(c)
    \/ \E c \in Overlapping : FetchFails(c)
    \/ \E c \in Overlapping : BackoffEnds(c)
    \/ \E c \in Overlapping : AnswersOk(c)
    \/ \E c \in Overlapping : Served(c)
    \/ ProbeResponds

SpecLast == InitOverlap /\ [][NextLast]_vars

(***************************************************************************)
(* useRealtimeSuggestions.  Each callback is an action; the continuation   *)
(* of the timer's callback after its await runs in the microtasks of the   *)
(* step that settles the call, before any other event is handled.          *)
(***************************************************************************)
\* the options the hook calls enhancePromptWithAI with, signal apart
SuggestionOptions == [content |-> <<"h", "i">>, level |-> "spark",
                      context |-> "general"]

\* the body of the effect, after its clearTimeout and abort: the state of
\* the hook for a content that is long enough (valid) or not
Effect(h, valid) ==
    [h EXCEPT !.edits = @ + 1,
              !.valid = valid,
              !.timer = IF valid THEN h.edits + 1 ELSE 0,
              !.isLoading = valid,
              !.error = FALSE,
              !.suggestions = IF valid THEN @ ELSE 0]

\* a callback of a request of the hook is due: its call has settled
Due(c) == c \in hook.requests /\ calls[c].pc \in {"returned", "rejected"}
\* no continuation is left to run in the current step of the event loop
Quiet == \A c \in DOMAIN calls : ~Due(c)

\* the content changes: React runs the cleanup of the effect and the effect
ContentChanges ==
    /\ Quiet
    /\ hook.edits < MaxEdits
    /\ \E valid \in BOOLEAN : hook' = Effect(hook, valid)
    /\ LET c == hook.controller
       IN  IF c # 0 /\ Suspended(c) /\ ~calls[c].signalAborted
           THEN Settle(c, SignalAborts(calls[c], consecutiveFailures,
                                       connectionState))
           ELSE UNCHANGED <<calls, connectionState, consecutiveFailures>>
    /\ UNCHANGED <<isOfflineMode, apiKeyConst, storedKey, probesInFlight,
                   probesNoKey, callsStarted, parser, builder, follow, refresh>>

\* the debounce timer fires: the callback makes a controller and calls
\* enhancePromptWithAI, in the next free slot c
DebounceFires(c) ==
    /\ Quiet
    /\ hook.timer # 0
    /\ callsStarted < MaxCalls
    /\ c = callsStarted + 1
    /\ calls[c].pc = "idle"
    /\ callsStarted' = callsStarted + 1
    /\ \E answer \in {"key", "dismissed"} :
         LET ans == IF apiKeyConst THEN "none" ELSE answer
             call == [IdleCall EXCEPT !.options = SuggestionOptions,
                                     !.promptAnswer = ans]
         IN  /\ Settle(c, EnterEnhance(call, consecutiveFailures,
                                       connectionState, isOfflineMode))
             /\ storedKey' = (storedKey \/ ans = "key")
    /\ hook' = [hook EXCEPT !.timer = 0,
                            !.controller = c,
                            !.requests = @ \cup {c}]
    /\ UNCHANGED <<isOfflineMode, apiKeyConst, probesInFlight, probesNoKey,
                   parser, builder, follow, refresh>>

\* the callback of the timer after its await, for the call c that settled:
\* the try block sets the suggestions, the catch block the error unless the
\* error is named AbortError; both set isLoading to false
Resumed(h, c, call) ==
    LET failed == call.pc = "rejected" /\ call.error.name # "AbortError"
    IN  [h EXCEPT !.requests = @ \ {c},
                  !.isLoading = FALSE,
                  !.suggestions = IF call.pc = "returned" THEN c
                                  ELSE IF failed THEN 0 ELSE @,
                  !.error = IF failed THEN TRUE ELSE @]

\* enhancePromptWithAI settles and the callback of the timer resumes
HookResumes(c) ==
    /\ Due(c)
    /\ hook' = Resumed(hook, c, calls[c])
    /\ UNCHANGED <<connectionState, consecutiveFailures, isOfflineMode,
                   apiKeyConst, storedKey, probesInFlight, probesNoKey,
                   callsStarted, calls, parser, builder, follow, refresh>>

\* The hook in one component, the content edited while its requests run,
\* with fetches that fail in transport or get an answer the call returns.
NextHook ==
    \/ ContentChanges
    \/ \E c \in Overlapping : DebounceFires(c)
    \/ \E c \in Overlapping : HookResumes(c)
    \/ \E c \in Overlapping : Quiet /\ FetchFails(c)
    \/ \E c \in Overlapping : Quiet /\ BackoffEnds(c)
    \/ \E c \in Overlapping : Quiet /\ AnswersOk(c)
    \/ \E c \in Overlapping : Quiet /\ Served(c)
    \/ Quiet /\ ProbeResponds

SpecHook == InitOverlap /\ [][NextHook]_vars

\* The service with refreshConnection() followed to its return, between
\* calls of enhance whose fetches fail, and the events of the window.
NextRefresh ==
    \/ RefreshCalled
    \/ RefreshResumes
    \/ \E c \in Calls : StartCall(c)
    \/ \E c \in Calls : FetchFails(c)
    \/ \E c \in Calls : BackoffEnds(c)
    \/ Offline
    \/ Online
    \/ ProbeResponds
    \/ ProbeWithoutKey

SpecRefresh == Init /\ [][NextRefresh]_vars

(***************************************************************************)
(* The parser on its own: parseAIResponse applied to a payload, and        *)
(* formatEnhancedContent applied to a text again and again.                *)
(***************************************************************************)
orchestrator == <<connectionState, consecutiveFailures, isOfflineMode,
                  apiKeyConst, storedKey, probesInFlight, probesNoKey,
                  callsStarted, calls>>

InitParser ==
    /\ connectionState = "unknown"
    /\ consecutiveFailures = 0
    /\ isOfflineMode = FALSE
    /\ apiKeyConst = TRUE
    /\ storedKey = FALSE
    /\ probesInFlight = 1
    /\ probesNoKey = 0
    /\ callsStarted = 0
    /\ calls = [c \in Calls |-> IdleCall]
    /\ \E p \in ParserInputs :
         parser = [IdleParser EXCEPT !.aiResponse = p, !.content = p]
    /\ builder = IdleBuilder
    /\ follow = FALSE
    /\ refresh = IdleRefresh
    /\ hook = IdleHook

\* makeAIRequest: parseAIResponse(aiResponse), aiResponse not empty
ParseResponse ==
    /\ ~parser.done
    /\ parser.aiResponse # <<>>
    /\ parser' = [parser EXCEPT !.done = TRUE,
                                !.result = parseAIResponse(parser.aiResponse)]
    /\ UNCHANGED <<orchestrator, builder, follow, refresh, hook>>

\* formatEnhancedContent(content)
FormatContent ==
    /\ parser.passes < MaxPasses
    /\ parser' = [parser EXCEPT !.content = formatEnhancedContent(@),
                                !.passes = @ + 1]
    /\ UNCHANGED <<orchestrator, builder, follow, refresh, hook>>

\* the enhancedContent of the parser's result is taken as the text
FeedBack ==
    /\ parser.done
    /\ ~parser.result.threw
    /\ ~parser.fedBack
    /\ parser.passes = 0
    /\ parser' = [parser EXCEPT !.content = parser.result.enhancedContent,
                                !.fedBack = TRUE]
    /\ UNCHANGED <<orchestrator, builder, follow, refresh, hook>>

NextParser ==
    \/ ParseResponse
    \/ FormatContent
    \/ FeedBack

SpecParser == InitParser /\ [][NextParser]_vars

(***************************************************************************)
(* The prompt builder on its own: getEnhancementPrompt applied to its      *)
(* arguments, as makeAIRequest applies it at every attempt.                *)
(***************************************************************************)
InitPrompt ==
    /\ connectionState = "unknown"
    /\ consecutiveFailures = 0
    /\ isOfflineMode = FALSE
    /\ apiKeyConst = TRUE
    /\ storedKey = FALSE
    /\ probesInFlight = 1
    /\ probesNoKey = 0
    /\ callsStarted = 0
    /\ calls = [c \in Calls |-> IdleCall]
    /\ parser = IdleParser
    /\ \E i \in PromptInputs :
         builder = [IdleBuilder EXCEPT !.content = i.content,
                                      !.level = i.level,
                                      !.context = i.context,
                                      !.lineCount = i.lineCount]
    /\ follow = FALSE
    /\ refresh = IdleRefresh
    /\ hook = IdleHook

\* makeAIRequest: getEnhancementPrompt(options.content, options.level,
\* options.context, options.lineCount), once per attempt
BuildPrompt ==
    /\ builder.builds < MaxBuilds
    /\ builder' = [builder EXCEPT
                      !.prompt = getEnhancementPrompt(builder.content, builder.level,
                                                      builder.context,
                                                      builder.lineCount),
                      !.builds = @ + 1]
    /\ UNCHANGED <<orchestrator, parser, follow, refresh, hook>>

NextPrompt == BuildPrompt

SpecPrompt == InitPrompt /\ [][NextPrompt]_vars

(***************************************************************************)
(* The editor: what handleEnhance shows for a call of enhancePromptWithAI. *)
(***************************************************************************)
EditorNotice(call) ==
    IF call.pc = "returned" THEN "Enhancement Complete"
    ELSE IF IsCancellation(call.error) THEN "Enhancement Cancelled"
    ELSE "AI Enhancement Failed"

\* handleEnhance falls back to the local enhancement
EditorFallsBack(call) == call.pc = "rejected" /\ ~IsCancellation(call.error)

(***************************************************************************)
(* Properties of the orchestrator.                                         *)
(***************************************************************************)
\* the step in which call c is made
CallMade(c) == callsStarted' = callsStarted + 1 /\ calls'[c].pc # "idle"
\* the call got past the key and offline checks to its first attempt
ReachedAttempts(call) == call.log # <<>>
LastAttempt(call) == call.log[Len(call.log)]

\* C1: a call that returns returns the result of its last attempt, every
\* attempt before that one has failed, and when it returns connectionState
\* is connected and consecutiveFailures is 0.
C1_ReturnsFirstSuccess ==
    \A c \in Calls :
        calls[c].pc = "returned" =>
            /\ ReachedAttempts(calls[c])
            /\ calls[c].response # "none"
            /\ <<calls[c].response[1], calls[c].response[2]>> = LastAttempt(calls[c])
            /\ calls[c].failedAttempts = Len(calls[c].log) - 1
            /\ calls[c].result = ResultOf(calls[c].response[3])
            /\ calls[c].stateAtEnd = "connected"
            /\ calls[c].failuresAtReturn = 0

\* C1 witness: the first two models failed four times each, the third
\* failed once and then answered.
C1_Witness ==
    \E c \in Calls :
        /\ calls[c].pc = "returned"
        /\ LastAttempt(calls[c]) = <<3, 2>>
        /\ calls[c].failedAttempts = 9
        /\ calls[c].result = ResultOf(<<"Just", " ", "some", " ", "text">>)

AllAttemptsFailed(call) ==
    ReachedAttempts(call) /\ call.failedAttempts = Len(call.log)

\* C2: a call all of whose attempts failed has, when it settles, made
\* exactly 12 attempts and is rejected with connectionState disconnected;
\* and every running call settles.
C2_AllFailRejectsAfterTwelve ==
    /\ [](\A c \in Calls :
            Finished(c) /\ AllAttemptsFailed(calls[c]) =>
                /\ calls[c].pc = "rejected"
                /\ Len(calls[c].log) = 12
                /\ calls[c].stateAtEnd = "disconnected")
    /\ \A c \in Calls : [](Suspended(c) => <>Finished(c))

\* C2 witness: twelve requests were sent, none was answered in time.
C2_Witness ==
    \E c \in Calls :
        /\ calls[c].pc = "rejected"
        /\ calls[c].netCalls = 12
        /\ calls[c].failedAttempts = 12
        /\ calls[c].lastError = AbortError
        /\ calls[c].stateAtEnd = "disconnected"

\* the attempts of a call that tries everything: model 1 four times, then
\* model 2 four times, then model 3 four times
AttemptOrder == [k \in 1..12 |-> <<((k - 1) \div 4) + 1, ((k - 1) % 4) + 1>>]

\* C3: the attempts a call has started are an initial part of AttemptOrder:
\* the models in their order, at most 4 attempts each, the next model only
\* after the 4th attempt, never an earlier model again.
C3_FixedOrder ==
    \A c \in Calls :
        /\ Len(calls[c].log) <= 12
        /\ calls[c].log = SubSeq(AttemptOrder, 1, Len(calls[c].log))
        /\ Suspended(c) => LastAttempt(calls[c]) = <<calls[c].model, calls[c].attempt>>

\* C3 witness: the 4th attempt on the last model is pending.
C3_Witness ==
    \E c \in Calls :
        /\ calls[c].pc = "fetch"
        /\ Len(calls[c].log) = 12
        /\ models[calls[c].model] = "fast"

\* C4: a call whose signal was aborted when its first attempt started
\* issues no network call, never returns, and is rejected with an error the
\* caller recognises as a cancellation.
C4_AbortedBeforeStart ==
    \A c \in Calls :
        calls[c].abortedAtStart /\ ReachedAttempts(calls[c]) =>
            /\ calls[c].netCalls = 0
            /\ calls[c].pc # "returned"
            /\ calls[c].pc = "rejected" => IsCancellation(calls[c].error)

\* C4 witness: such a call has been rejected.
C4_Witness ==
    \E c \in Calls :
        /\ calls[c].abortedAtStart
        /\ calls[c].pc = "rejected"
        /\ ReachedAttempts(calls[c])
        /\ calls[c].netCalls = 0
        /\ EditorNotice(calls[c]) = "Enhancement Cancelled"

\* C5: once the signal is aborted during a call, the call is rejected at
\* once: no aborted call is left waiting or with an attempt pending.
C5_CancelRejectsAtOnce ==
    \A c \in Calls :
        /\ calls[c].signalAborted
        /\ ~calls[c].abortedAtStart
        /\ ReachedAttempts(calls[c])
        => /\ calls[c].pc = "rejected"
           /\ IsCancellation(calls[c].error)

AttemptCancelled(c) ==
    /\ calls'[c].lastError = CancelledError
    /\ <<callsStarted', calls'[c].failedAttempts>>
           # <<callsStarted, calls[c].failedAttempts>>

\* C7: an attempt that ends because the caller cancelled leaves
\* consecutiveFailures and connectionState as they are.
C7_CancellationNotCounted ==
    [][\A c \in Calls :
          AttemptCancelled(c) =>
              /\ consecutiveFailures' = consecutiveFailures
              /\ connectionState' = connectionState]_vars

\* C8: an attempt that succeeded has made its call return, and a call that
\* has returned does nothing more: no attempt, no network call, no other
\* result, until the caller makes the next call.
C8_OneResult ==
    [][\A c \in Calls :
          /\ calls'[c].response # "none" =>
                 /\ calls'[c].pc = "returned"
                 /\ calls'[c].result = ResultOf(calls'[c].response[3])
          /\ calls[c].pc = "returned" /\ callsStarted' = callsStarted =>
                 calls'[c] = calls[c]]_vars

\* C8 witness: a call returned at its 2nd attempt with 2 network calls and
\* left the service connected; the service has gone on since (it reads
\* disconnected) while the call stayed as it was.
C8_Witness ==
    \E c \in Calls :
        /\ calls[c].pc = "returned"
        /\ calls[c].netCalls = 2
        /\ Len(calls[c].log) = 2
        /\ calls[c].stateAtEnd = "connected"
        /\ connectionState = "disconnected"

\* a call made with a valid request, a credential and a signal not aborted
ProperCall(c) ==
    /\ CallMade(c)
    /\ ValidRequest(calls'[c].options)
    /\ calls'[c].promptAnswer # "dismissed"
    /\ ~calls'[c].abortedAtStart

\* the call made in this step has issued the fetch of its first attempt
ProceedsToAttempt(c) ==
    /\ calls'[c].pc = "fetch"
    /\ calls'[c].netCalls = 1
    /\ calls'[c].log = <<<<1, 1>>>>

\* C9 as stated: whenever the state reads disconnected, a proper call still
\* proceeds to a network attempt.
C9_DisconnectedNeverGates ==
    [][\A c \in Calls :
          ProperCall(c) /\ connectionState = "disconnected" => ProceedsToAttempt(c)]_vars

\* C9 amended: whenever the state reads disconnected and the service is not
\* in offline mode, a proper call proceeds to a network attempt.
C9_DisconnectedGatesOnlyOffline ==
    [][\A c \in Calls :
          ProperCall(c) /\ connectionState = "disconnected" /\ ~isOfflineMode
              => ProceedsToAttempt(c)]_vars

\* C9 witness: the first attempt of a call is pending, the service online
\* and disconnected with 12 failures counted: the call before it exhausted
\* the models, nothing has succeeded since (that would reset the counter),
\* so the state read disconnected when this call was made.
C9_Witness ==
    \E c \in Calls :
        /\ calls[c].pc = "fetch"
        /\ calls[c].log = <<<<1, 1>>>>
        /\ consecutiveFailures >= 12
        /\ connectionState = "disconnected"
        /\ ~isOfflineMode

\* C10: a call made with an invalid request (content empty after trimming,
\* unknown level, unknown context) is rejected without any network call.
C10_InvalidRequestRejected ==
    \A c \in Calls :
        calls[c].pc # "idle" /\ ~ValidRequest(calls[c].options) =>
            /\ calls[c].pc = "rejected"
            /\ calls[c].netCalls = 0

\* C11: a call made without a key in the configuration and with the key
\* prompt dismissed is rejected in the same step with the key error, which
\* the editor shows as a failure; it has started no attempt and issued no
\* network call, and connectionState and consecutiveFailures are as before.
C11_NoCredentialFailsFast ==
    [][\A c \in Calls :
          CallMade(c) /\ calls'[c].promptAnswer = "dismissed" =>
              /\ calls'[c].pc = "rejected"
              /\ calls'[c].error = ApiKeyError
              /\ EditorNotice(calls'[c]) = "AI Enhancement Failed"
              /\ calls'[c].log = <<>>
              /\ calls'[c].netCalls = 0
              /\ connectionState' = connectionState
              /\ consecutiveFailures' = consecutiveFailures]_vars

\* C11 witness: the second call was rejected for the missing key while the
\* service, after the first call, read connected.
C11_Witness ==
    \E c \in Calls :
        /\ calls[c].pc = "rejected"
        /\ calls[c].error = ApiKeyError
        /\ calls[c].netCalls = 0
        /\ calls[c].stateAtEnd = "connected"
        /\ callsStarted = 2

\* C12: the result of a call that returned is the parser's result for the
\* payload of its successful attempt and is not the local fallback of its
\* request, and a call all of whose attempts failed is rejected, never
\* returned.
C12_NoLocalSubstitute ==
    \A c \in Calls :
        /\ calls[c].pc = "returned" =>
              /\ calls[c].response # "none"
              /\ calls[c].result = ResultOf(calls[c].response[3])
              /\ calls[c].result # getLocalFallback(calls[c].options)
        /\ Finished(c) /\ AllAttemptsFailed(calls[c]) => calls[c].pc = "rejected"

\* C12 witness: every attempt failed on the network; the call was rejected
\* and it is the editor that falls back.
C12_Witness ==
    \E c \in Calls :
        /\ calls[c].pc = "rejected"
        /\ calls[c].failedAttempts = 12
        /\ calls[c].lastError = NetworkError
        /\ EditorFallsBack(calls[c])

(***************************************************************************)
(* Properties of the parser.                                               *)
(***************************************************************************)
IsText(s) == DOMAIN s = 1..Len(s) /\ \A i \in 1..Len(s) : s[i] \in STRING

\* C13: for every payload that is not empty parseAIResponse returns, it
\* does not throw, and what it returns is an EnhancementResult: a text, a
\* sequence and a number.
C13_ParserTotal ==
    parser.done =>
        /\ ~parser.result.threw
        /\ IsText(parser.result.enhancedContent)
        /\ DOMAIN parser.result.improvementsSummary
               = 1..Len(parser.result.improvementsSummary)
        /\ parser.result.confidence \in Int

\* C13 witness: an object whose enhancedContent is a number has been parsed,
\* by the final fallback.
C13_Witness ==
    /\ parser.done
    /\ parser.aiResponse = Stringify(Answer(JNum(50), JArr(<<>>), JNum(9)), 0, 0)
    /\ parser.result.improvementsSummary = <<AppliedFallback>>

\* C14: the confidence of every result of the parser is between 0 and 1
\* (0 and 10 tenths).
C14_ConfidenceInUnitInterval ==
    parser.done /\ ~parser.result.threw =>
        /\ 0 <= parser.result.confidence
        /\ parser.result.confidence <= 10

\* C14 witness: an answer with confidence -0.5 has been parsed, to 0.
C14_Witness ==
    /\ parser.done
    /\ parser.aiResponse = Stringify(Answer(JStr(<<"X">>), JNull, JNum(-5)), 0, 0)
    /\ parser.result.confidence = 0

\* C15: for a well-formed answer (a tidy text with its line breaks, a
\* sequence of texts, a confidence in (0,1]) the parser returns the three
\* values of the answer.
C15_WellFormedReturned ==
    \A i \in 1..Len(WellFormedAnswers) :
        parser.done /\ parser.aiResponse \in JsonTexts(WellFormedAnswers[i]) =>
            /\ parser.result.enhancedContent
                   = Get(WellFormedAnswers[i], "enhancedContent").v
            /\ parser.result.improvementsSummary
                   = Get(WellFormedAnswers[i], "improvementsSummary").v
            /\ parser.result.confidence
                   = Get(WellFormedAnswers[i], "confidence").v

\* C16: for a payload of plain text the parser returns the normalized
\* payload, one improvement, and a confidence below 0.8 (8 tenths).
C16_PlainTextLowerConfidence ==
    parser.done /\ parser.aiResponse \in PlainTexts =>
        /\ parser.result.enhancedContent = formatEnhancedContent(parser.aiResponse)
        /\ Len(parser.result.improvementsSummary) = 1
        /\ parser.result.confidence < 8

\* a text in fences: tagged or not, on lines of their own or not
FencedForms(text) ==
    { Fenced(text, TRUE), Fenced(text, FALSE),
      <<Fence, "json">> \o text \o <<Fence>> }

\* the object's enhancedContent is a string or is not truthy: the parser
\* does not come to its final fallback
PlainlyHandled(object) ==
    \/ ~Truthy(Get(object, "enhancedContent"))
    \/ Get(object, "enhancedContent").t = "string"

\* the JSON texts of the objects of the model, and of those among them whose
\* enhancedContent is a string or is not truthy
ObjectTexts ==
    UNION {JsonTexts(JsonValues[i]) :
              i \in {j \in 1..Len(JsonValues) : JsonValues[j].t = "object"}}
PlainlyHandledTexts ==
    UNION {JsonTexts(JsonValues[i]) :
              i \in {j \in 1..Len(JsonValues) :
                        JsonValues[j].t = "object" /\ PlainlyHandled(JsonValues[j])}}

\* C17 as stated: the result for a JSON object in fences is the result for
\* the object alone.
C17_FencesTransparent ==
    parser.done =>
        \A text \in ObjectTexts :
            parser.aiResponse \in FencedForms(text)
                => parser.result = parseAIResponse(text)

\* C17 amended: the result for a JSON object in fences is the result for the
\* object alone if the object's enhancedContent is a string or is not
\* truthy; the answer with confidence 1.5 in fences gives its content and
\* confidence 1.
C17_FencesTransparentForTextContent ==
    /\ parser.done =>
          \A text \in PlainlyHandledTexts :
              parser.aiResponse \in FencedForms(text)
                  => parser.result = parseAIResponse(text)
    /\ parser.done /\ parser.aiResponse \in FencedForms(Stringify(ClampedAnswer, 0, 0))
          => parser.result = Result(<<"X">>, <<>>, 10)

\* C17 witness: the answer with confidence 1.5, in tagged fences, parsed.
C17_Witness ==
    /\ parser.done
    /\ parser.aiResponse = Fenced(Stringify(ClampedAnswer, 0, 0), TRUE)
    /\ parser.result.confidence = 10
    /\ parser.result.enhancedContent = <<"X">>

\* C18: the result for an answer encoded twice is the result for the answer
\* itself.
C18_DoubleEncodedUnwrapped ==
    \A answer \in {WellFormedAnswers[1], ClampedAnswer} :
        parser.done /\ parser.aiResponse \in JsonTexts(DoubleEncoded(answer)) =>
            parser.result = parseAIResponse(Stringify(answer, 0, 0))

\* C19: formatEnhancedContent leaves a text it has produced as it is, and so
\* the enhancedContent of a result of the parser.
C19_NormalizationFixedPoint ==
    [][/\ parser.passes >= 1 \/ parser.fedBack
       /\ parser'.passes = parser.passes + 1
       => parser'.content = parser.content]_vars

\* C19 witness: a text with an escaped newline, formatted twice.
C19_Witness ==
    /\ parser.passes = 2
    /\ parser.aiResponse = <<"a", "\\", "n", "a">>
    /\ parser.content = <<"a", " ", "a">>

\* C20: when an attempt has its outcome (the call waits for the next
\* attempt or is settled), neither of the two timers of the attempt is
\* pending.
C20_TimersCleared ==
    \A c \in Calls :
        calls[c].pc \in {"backoff", "returned", "rejected"} =>
            /\ calls[c].requestTimer # "pending"
            /\ calls[c].raceTimer # "pending"

\* the objects of the model the parser extracts from: their enhancedContent
\* is a text that is not empty
ExtractedFrom ==
    {i \in 1..Len(JsonValues) :
        /\ JsonValues[i].t = "object"
        /\ Get(JsonValues[i], "enhancedContent").t = "string"
        /\ Get(JsonValues[i], "enhancedContent").v # <<>>}

\* C29: for an object with an enhancedContent the confidence returned is
\* the object's confidence c brought into [0,1] if c is a number, 0 and
\* negative numbers included, and 0.8 if it is absent, null or a string
\* that is no numeral (in tenths: 0, 10, 8).
C29_ConfidenceClampedOrDefault ==
    \A i \in ExtractedFrom :
        parser.done /\ parser.aiResponse \in JsonTexts(JsonValues[i]) =>
            LET c == Get(JsonValues[i], "confidence")
            IN  /\ c.t = "number" =>
                      parser.result.confidence
                          = IF c.v < 0 THEN 0 ELSE IF c.v > 10 THEN 10 ELSE c.v
                /\ c.t \in {"undefined", "null"} \/ (c.t = "string" /\ ToNumber(c).nan)
                      => parser.result.confidence = 8

\* a sequence of texts
IsTextSequence(s) ==
    /\ DOMAIN s = 1..Len(s)
    /\ \A k \in 1..Len(s) : s[k].t = "string"

\* C30: for an object with an enhancedContent the improvementsSummary
\* returned is a sequence of texts: the object's array of texts as it is, its
\* single text as the only element, and one generic note for anything else.
C30_SummaryIsTextSequence ==
    \A i \in ExtractedFrom :
        parser.done /\ parser.aiResponse \in JsonTexts(JsonValues[i]) =>
            LET s == Get(JsonValues[i], "improvementsSummary")
            IN  /\ IsTextSequence(parser.result.improvementsSummary)
                /\ parser.result.improvementsSummary =
                      IF s.t = "array" /\ IsTextSequence(s.v) THEN s.v
                      ELSE IF s.t = "string" /\ s.v # <<>> THEN <<s>>
                      ELSE <<Applied>>

(***************************************************************************)
(* Properties of the race of an attempt, of its timers and of its delays.  *)
(***************************************************************************)
InFlight(call) == call.pc \in {"fetch", "body", "ratelimit"}

\* C21: while an attempt of a call is pending, no call of makeAIRequest of
\* an earlier attempt of that call still runs: neither its request, nor
\* its reading of the response, nor its 429 wait.
C21_LosersAborted ==
    \A c \in Calls : InFlight(calls[c]) => calls[c].abandoned = "none"

\* a path of a race settled before resolves in this step of call c
LosingPathResolves(c) ==
    /\ ~CallMade(c)
    /\ calls'[c].signalAborted = calls[c].signalAborted
    /\ \/ calls[c].abandoned # "none" /\ calls'[c].abandoned = "none"
       \/ calls[c].raceTimer = "pending" /\ calls'[c].raceTimer = "expired"

\* C22: every attempt started has one outcome (it is pending, it has
\* failed, or it has given the result of the call), and the late resolution
\* of a path that lost its race changes neither the attempts and their
\* outcomes, nor the result or the error of the call, nor connectionState
\* and consecutiveFailures.
C22_OneOutcomePerAttempt ==
    /\ [](\A c \in Calls :
            ReachedAttempts(calls[c]) =>
                Len(calls[c].log) = calls[c].failedAttempts
                    + (IF InFlight(calls[c]) \/ calls[c].pc = "returned"
                       THEN 1 ELSE 0))
    /\ [][\A c \in Calls :
            LosingPathResolves(c) =>
                /\ calls'[c].pc = calls[c].pc
                /\ calls'[c].log = calls[c].log
                /\ calls'[c].failedAttempts = calls[c].failedAttempts
                /\ calls'[c].lastError = calls[c].lastError
                /\ calls'[c].error = calls[c].error
                /\ calls'[c].result = calls[c].result
                /\ calls'[c].response = calls[c].response
                /\ UNCHANGED service]_vars

\* a call that returned after a timed-out attempt whose reading of the
\* response has since settled, and the timer of its last race has fired
C22_Witness ==
    \E c \in Calls :
        /\ calls[c].pc = "returned"
        /\ calls[c].lastError = TimeoutError
        /\ calls[c].abandoned = "none"
        /\ calls[c].raceTimer = "expired"

\* an attempt with its timers starts in this step of call c
AttemptStarts(c) ==
    /\ calls'[c].pc = "fetch"
    /\ CallMade(c) \/ Len(calls'[c].log) > Len(calls[c].log)

\* an attempt of call c is ended by a timer in this step
EndedByTimer(c) ==
    /\ InFlight(calls[c])
    /\ calls'[c].failedAttempts > calls[c].failedAttempts
    /\ calls'[c].lastError \in {AbortError, TimeoutError}

\* C25: the deadline of an attempt is min(30 s + 5 s * consecutiveFailures,
\* 60 s), with consecutiveFailures as it is when the attempt starts; it
\* is between 30 s and 60 s, and no timer ends the attempt before 30 s or
\* after its deadline.
C25_AdaptiveDeadline ==
    [][\A c \in Calls :
         /\ AttemptStarts(c) =>
              /\ calls'[c].adaptiveTimeout
                    = Min(30000 + 5000 * consecutiveFailures', 60000)
              /\ calls'[c].adaptiveTimeout >= 30000
              /\ calls'[c].adaptiveTimeout <= 60000
         /\ EndedByTimer(c) =>
              LET after == IF calls'[c].lastError = AbortError
                           THEN timeout ELSE calls[c].adaptiveTimeout
              IN  after >= 30000 /\ after <= calls[c].adaptiveTimeout]_vars

\* an attempt that starts after seven failures or more: the cap applies
C25_Witness ==
    \E c \in Calls :
        /\ calls[c].pc = "fetch"
        /\ consecutiveFailures >= 7
        /\ calls[c].adaptiveTimeout = 60000

\* C26: after the k-th failed attempt on a model, k in 1..3, the call waits
\* min(k * 1 s, 3 s) and retries the same model; after the 4th it goes to the
\* next model without a wait, or rejects after the last model; every failed
\* attempt adds exactly 1 to consecutiveFailures.
C26_BackoffSchedule ==
    /\ [](\A c \in Calls :
            calls[c].pc = "backoff" =>
                /\ calls[c].attempt \in 1..3
                /\ LastAttempt(calls[c]) = <<calls[c].model, calls[c].attempt>>
                /\ calls[c].delay = Min(calls[c].attempt * 1000, 3000))
    /\ [][\A c \in Calls :
            /\ calls[c].pc = "backoff" /\ calls'[c].log # calls[c].log =>
                 /\ Len(calls'[c].log) >= Len(calls[c].log) + 1
                 /\ calls'[c].log[Len(calls[c].log) + 1]
                        = <<calls[c].model, calls[c].attempt + 1>>
            /\ InFlight(calls[c]) /\ calls[c].attempt = 4
                 /\ calls'[c].failedAttempts > calls[c].failedAttempts =>
                 IF calls[c].model < 3
                 THEN /\ Len(calls'[c].log) = Len(calls[c].log) + 1
                      /\ LastAttempt(calls'[c]) = <<calls[c].model + 1, 1>>
                 ELSE calls'[c].pc = "rejected"
            /\ ~CallMade(c) /\ calls'[c].failedAttempts # calls[c].failedAttempts =>
                 consecutiveFailures' - consecutiveFailures
                    = calls'[c].failedAttempts - calls[c].failedAttempts]_vars

\* the call waits 3 s after the third failure on the second model
C26_Witness ==
    \E c \in Calls :
        /\ calls[c].pc = "backoff"
        /\ calls[c].model = 2
        /\ calls[c].attempt = 3
        /\ calls[c].delay = 3000
        /\ calls[c].failedAttempts = 7
        /\ consecutiveFailures = 7

\* C27: the retry after an attempt answered with 429 never starts while the
\* wait of that attempt (the delay the server gave, or 5 s) still runs, for
\* a call that is not cancelled; and the attempt has failed, one of the
\* twelve, when the call leaves the wait.
C27_RateLimitDelayHonoured ==
    [][\A c \in Calls :
         /\ ~CallMade(c) /\ ~calls'[c].signalAborted
              /\ Len(calls'[c].log) > Len(calls[c].log)
              => calls'[c].abandoned # "wait"
         /\ calls[c].pc = "ratelimit" /\ calls'[c].pc # "ratelimit" =>
              /\ calls'[c].failedAttempts > calls[c].failedAttempts
              /\ Len(calls'[c].log) <= 12]_vars

\* the errors the pending attempt of a call can fail with, from where the
\* call is suspended: the fetch (transport failure, abort by the request
\* timer, a status that is not ok), response.json() and the content, the
\* 429 wait, and the check of the signal when the delay ends; the race timer
\* and the cancellation after the response
OutcomesAt(call) ==
    CASE call.pc = "fetch" ->
            {NetworkError, AbortError, CancelledError}
            \cup {HttpError(status, text) :
                    status \in ErrorStatuses \ {"429"}, text \in ServerMessages}
      [] call.pc = "body" ->
            {NoResponseError, SyntaxError, ParserError, TimeoutError, CancelledError}
      [] call.pc = "ratelimit" ->
            {HttpError("429", text) : text \in ServerMessages}
            \cup {TimeoutError, CancelledError}
      [] OTHER -> {CancelledError}

\* C28: when the twelfth attempt has failed the call rejects with an error
\* that carries the message of the error of that attempt, the fourth on
\* the last model, not of an earlier one.
C28_LastErrorCarried ==
    [][\A c \in Calls :
         Suspended(c) /\ calls'[c].pc = "rejected" =>
            /\ Len(calls'[c].log) = 12
            /\ \E e \in OutcomesAt(calls[c]) :
                 /\ calls'[c].lastError = e
                 /\ calls'[c].error = ExhaustedError(e)]_vars

\* a call that rejects after twelve failures, the last on a response that
\* is not JSON
C28_Witness ==
    \E c \in Calls :
        /\ calls[c].pc = "rejected"
        /\ calls[c].failedAttempts = 12
        /\ calls[c].requestTimer = "cleared"
        /\ calls[c].raceTimer = "pending"
        /\ calls[c].error = ExhaustedError(SyntaxError)

(***************************************************************************)
(* Properties of calls that overlap.                                       *)
(***************************************************************************)
\* the attempts that have failed, of all the calls
FailedAttempts(cs) == cs[1].failedAttempts + cs[2].failedAttempts

\* an attempt or a probe succeeds in this step
SuccessStep ==
    \/ \E c \in Overlapping :
         calls[c].pc # "returned" /\ calls'[c].pc = "returned"
    \/ probesInFlight' < probesInFlight /\ connectionState' = "connected"

\* C23: with calls that overlap, consecutiveFailures is never negative and
\* every step in which no attempt and no probe succeeds adds to it exactly
\* the number of attempts that fail in the step: no increment is lost, in
\* any interleaving.
C23_CounterAtomic ==
    /\ [](consecutiveFailures >= 0)
    /\ [][~SuccessStep =>
            consecutiveFailures' - consecutiveFailures
                = FailedAttempts(calls') - FailedAttempts(calls)]_vars

\* two calls, both between two attempts, each with failures the counter has
\* counted
C23_Witness ==
    /\ calls[1].pc = "backoff"
    /\ calls[2].pc = "backoff"
    /\ calls[1].failedAttempts >= 2
    /\ calls[2].failedAttempts >= 2
    /\ consecutiveFailures = calls[1].failedAttempts + calls[2].failedAttempts

(***************************************************************************)
(* Properties of the prompt builder.                                       *)
(***************************************************************************)
\* part occurs in text
Contains(text, part) ==
    \E i \in 0..(Len(text) - Len(part)) : SubSeq(text, i + 1, i + Len(part)) = part

\* C24: for every content, every level and every context of contextMap the
\* prompt contains the JSON structure asked for (enhancedContent,
\* improvementsSummary, confidence) and, after the words Context, the phrase
\* of that context; and the prompt built again from the same arguments is
\* the same prompt.
C24_PromptHasShapeAndContext ==
    /\ [](builder.builds > 0 /\ builder.level \in Levels
              /\ builder.context \in Contexts =>
            /\ Contains(builder.prompt, JsonStructure)
            /\ Contains(builder.prompt,
                 << "**Context:** ",
                    CASE builder.context = "technical" ->
                            "software development, programming, and technical documentation"
                      [] builder.context = "creative" ->
                            "creative writing, storytelling, and artistic expression"
                      [] builder.context = "analytical" ->
                            "data analysis, research, and analytical thinking"
                      [] builder.context = "business" ->
                            "business strategy, management, and commercial applications"
                      [] builder.context = "general" ->
                            "general knowledge and communication" >>))
    /\ [][builder.builds > 0 /\ builder'.builds > builder.builds =>
            builder'.prompt = builder.prompt]_vars

\* the prompt for a business context has been built twice
C24_Witness ==
    /\ builder.builds = 2
    /\ builder.context = "business"
    /\ builder.level = "shine"
    /\ builder.lineCount = 3
    /\ Contains(builder.prompt, <<"**Context:** ",
                "business strategy, management, and commercial applications">>)

(***************************************************************************)
(* C31: refreshConnection performs one probe and updates the state from    *)
(* its outcome: when it returns, the state is connected and it returns     *)
(* true if and only if the probe succeeded, otherwise the state is         *)
(* disconnected and it returns false; a probe that succeeded leaves        *)
(* consecutiveFailures at 0; without a credential the probe reports        *)
(* failure and no request is issued.                                       *)
(***************************************************************************)
C31_RefreshFollowsProbe ==
    [][ (refresh.pc # "done" /\ refresh'.pc = "done") =>
           /\ refresh'.fetches <= 1
           /\ refresh'.returned = refresh'.isConnected
           /\ connectionState' = IF refresh'.isConnected THEN "connected"
                                                          ELSE "disconnected"
           /\ refresh'.isConnected => consecutiveFailures' = 0
           /\ ~refresh'.credential =>
                  ~refresh'.isConnected /\ refresh'.fetches = 0 ]_vars

\* a refresh whose probe succeeded after failed attempts has returned true
C31_Witness ==
    /\ refresh.pc = "done"
    /\ refresh.returned
    /\ refresh.isConnected
    /\ refresh.fetches = 1
    /\ refresh.failuresBefore > 0
    /\ connectionState = "connected"
    /\ consecutiveFailures = 0

\* an attempt of call c ends in the step: it fails, or the call returns
AttemptEnds(c) ==
    \/ calls'[c].failedAttempts >
          (IF callsStarted' = callsStarted THEN calls[c].failedAttempts ELSE 0)
    \/ calls[c].pc = "body" /\ calls'[c].pc = "returned"

\* a probe ends in the step: checkConnectionStatus resumes
ProbeEnds ==
    \/ probesInFlight' < probesInFlight
    \/ probesNoKey' < probesNoKey

\* the window's offline event is handled in the step
GoesOffline == ~isOfflineMode /\ isOfflineMode'

(***************************************************************************)
(* C32: connectionState is unknown when the service is created, and every  *)
(* later change of it is caused by the outcome of an enhance attempt or of *)
(* a probe; no other event changes it.                                     *)
(***************************************************************************)
C32_ChangedByAttemptsAndProbes ==
    /\ connectionState = "unknown"
    /\ [][ connectionState' # connectionState =>
             (\E c \in DOMAIN calls : AttemptEnds(c)) \/ ProbeEnds ]_vars

(***************************************************************************)
(* C32 as amended: connectionState is unknown when the service is created, *)
(* and every later change of it is caused by the outcome of an enhance     *)
(* attempt or of a probe, or by the browser's offline event; no other      *)
(* event changes it.                                                       *)
(***************************************************************************)
C32_ChangedByAttemptsProbesAndOffline ==
    /\ connectionState = "unknown"
    /\ [][ connectionState' # connectionState =>
             \/ \E c \in DOMAIN calls : AttemptEnds(c)
             \/ ProbeEnds
             \/ GoesOffline ]_vars

\* the offline event has changed the state a call had left connected
C32_Witness ==
    /\ isOfflineMode
    /\ connectionState = "disconnected"
    /\ \E c \in DOMAIN calls :
          calls[c].pc = "returned" /\ calls[c].stateAtEnd = "connected"
    /\ probesInFlight = 0

(***************************************************************************)
(* C33: once the signal of an enhance call is aborted, at whatever point   *)
(* of the call, the call issues no further fetch: every attempt checks the *)
(* signal before its request.                                              *)
(***************************************************************************)
C33_NoFetchAfterAbort ==
    [][ \A c \in DOMAIN calls :
          calls'[c].signalAborted =>
             calls'[c].netCalls =
                 IF callsStarted' = callsStarted THEN calls[c].netCalls ELSE 0 ]_vars

\* a call aborted while it ran went through its twelve attempts with fewer
\* fetches
C33_Witness ==
    \E c \in DOMAIN calls :
       /\ calls[c].signalAborted
       /\ ~calls[c].abortedAtStart
       /\ calls[c].pc = "rejected"
       /\ Len(calls[c].log) = Len(models) * maxRetries
       /\ calls[c].netCalls >= 2
       /\ calls[c].netCalls < Len(calls[c].log)

C35_OfflineReadsDisconnected ==
    isOfflineMode => connectionState = "disconnected"

(***************************************************************************)
(* C36: the fetch of an attempt is aborted by the timer of makeAIRequest,  *)
(* 30 s after it was issued, whatever the adaptive deadline of the attempt *)
(* is: an attempt whose fetch gets no response is ended by that timer,     *)
(* with the abort error, never by the timer of the race, also when the     *)
(* deadline is above 30 s.                                                 *)
(***************************************************************************)
C36_RequestTimerFixed ==
    [][ \A c \in DOMAIN calls :
          (calls[c].pc = "fetch" /\ EndedByTimer(c)) =>
              /\ calls'[c].lastError = AbortError
              /\ timeout = 30000
              /\ timeout <= calls[c].adaptiveTimeout ]_vars

\* the second attempt of the first call was ended by the request timer; the
\* counter is 2, so it was 1 when the attempt started and the deadline of
\* the attempt was 35 s
C36_Witness ==
    \E c \in DOMAIN calls :
       /\ callsStarted = 1
       /\ calls[c].pc = "backoff"
       /\ calls[c].attempt = 2
       /\ calls[c].lastError = AbortError
       /\ consecutiveFailures = 2

\* call c settles in the step and no call is left running after it
FinishesLast(c) ==
    /\ calls[c].pc \notin {"returned", "rejected"}
    /\ \A d \in DOMAIN calls : calls'[d].pc \in {"returned", "rejected"}

(***************************************************************************)
(* C37: with overlapping enhance calls on the shared service, the state    *)
(* when all of them have finished is the one written by the call that      *)
(* finished last: connected with consecutiveFailures 0 if that call        *)
(* returned, disconnected if it failed on every model, whatever the        *)
(* outcomes of the other calls.                                            *)
(***************************************************************************)
C37_LastFinisherDecides ==
    [][ \A c \in DOMAIN calls :
          FinishesLast(c) =>
             /\ calls'[c].pc = "returned" =>
                    connectionState' = "connected" /\ consecutiveFailures' = 0
             /\ (calls'[c].pc = "rejected"
                    /\ calls'[c].error = ExhaustedError(calls'[c].lastError)) =>
                    connectionState' = "disconnected" ]_vars

\* one call failed on every model and left the service disconnected, the
\* other returned after it: the service is connected.  The probe of the
\* constructor is still in flight, so no probe has written the state
C37_Witness ==
    /\ DOMAIN calls = Overlapping
    /\ probesInFlight = 1
    /\ \E c, d \in DOMAIN calls :
          /\ calls[c].pc = "rejected"
          /\ calls[c].stateAtEnd = "disconnected"
          /\ calls[c].netCalls > 0
          /\ calls[d].pc = "returned"
          /\ calls[d].netCalls > 1
    /\ connectionState = "connected"
    /\ consecutiveFailures = 0

\* the request for the current content is pending: its debounce timer, or
\* its call
CurrentPending ==
    \/ hook.timer # 0
    \/ /\ hook.controller \in hook.requests
       /\ ~calls[hook.controller].signalAborted
       /\ calls[hook.controller].pc \notin {"returned", "rejected"}

(***************************************************************************)
(* C38: when the content changes while a suggestion request is pending,    *)
(* the pending debounce timer is cleared and the request in flight is      *)
(* aborted, and the completion of the aborted request does not disturb the *)
(* state of the newer content: it neither sets the error nor sets          *)
(* isLoading to false while the newer request is pending.                  *)
(***************************************************************************)
C38_AbortedRequestSilent ==
    [][ /\ hook'.edits > hook.edits =>
             /\ hook'.timer \in {0, hook'.edits}
             /\ \A c \in hook.requests : calls'[c].signalAborted
        /\ \A c \in hook.requests :
             (c \notin hook'.requests /\ calls[c].signalAborted
                /\ CurrentPending) =>
                 /\ hook'.error = hook.error
                 /\ hook'.isLoading = hook.isLoading ]_vars

====
